---- MODULE Spec2Model ----
(***************************************************************************)
(* Navigation subsystem of the RTk-VL robot: NavigationSystem              *)
(* (src/src/navigation/navigation_system.py) together with the part of     *)
(* LidarController (src/src/hardware/lidar_controller.py) it consumes.     *)
(*                                                                         *)
(* Units.  Python floats are modelled by integers: lengths in millimetres  *)
(* (0.5 m = 500), scan angles in whole degrees, headings in units of       *)
(* 1e-4 rad (pi = 31416), occupancy values in tenths (0.5 = 5, 0.7 = 7,    *)
(* 1.0 = 10).  int(...) of the source is truncation toward zero.           *)
(***************************************************************************)
EXTENDS Integers, Sequences, FiniteSets, TLC

\* ------------------------------------------------------------------------
\* Bounds of the model and configuration
\* ------------------------------------------------------------------------

\* side of the (square) configured map, slam.map_size = [MapN, MapN]
MapN == 4

\* slam.map_size
map_size == <<MapN, MapN>>

\* slam.map_resolution, millimetres per cell
map_resolution == 250

\* path_planning.safety_margin, millimetres
safety_margin == 300

\* self.min_obstacle_distance, millimetres
min_obstacle_distance == 500

\* lidar max_distance in metres
max_distance == 12

\* ------------------------------------------------------------------------
\* Arithmetic helpers
\* ------------------------------------------------------------------------

Abs(n) == IF n < 0 THEN -n ELSE n

\* Python int(a / b) for b > 0: truncation toward zero
TruncDiv(a, b) == IF a >= 0 THEN a \div b ELSE -((-a) \div b)

\* np.cos / np.sin of np.radians(angle), in thousandths, for the scan angles
\* the model feeds in
Trig ==
  [a \in {0, 30, 31, 90, 180, 270, 329, 330} |->
     CASE a = 0   -> [cos |-> 1000,  sin |-> 0]
       [] a = 30  -> [cos |-> 866,   sin |-> 500]
       [] a = 31  -> [cos |-> 857,   sin |-> 515]
       [] a = 90  -> [cos |-> 0,     sin |-> 1000]
       [] a = 180 -> [cos |-> -1000, sin |-> 0]
       [] a = 270 -> [cos |-> 0,     sin |-> -1000]
       [] a = 329 -> [cos |-> 857,   sin |-> -515]
       [] a = 330 -> [cos |-> 866,   sin |-> -500]]

\* ------------------------------------------------------------------------
\* Occupancy grid
\* ------------------------------------------------------------------------

\* np.ones(self.map_size): an array of shape (map_size[0], map_size[1]),
\* indexed [row, column]
Shape == [rows |-> map_size[1], cols |-> map_size[2]]

ArrayIndices == (0 .. Shape.rows - 1) \X (0 .. Shape.cols - 1)

\* the grid right after _initialize_map: every cell unknown
InitialMap == [rc \in ArrayIndices |-> 5]

map_origin == << -((map_size[1] * map_resolution) \div 2),
                 -((map_size[2] * map_resolution) \div 2) >>

\* the bounds test the source writes before every cell access
InBounds(x, y) == 0 <= x /\ x < map_size[1] /\ 0 <= y /\ y < map_size[2]

\* self.occupancy_map[y, x] is a legal numpy access
Indexable(x, y) == <<y, x>> \in ArrayIndices

_world_to_map(wx, wy) ==
  << TruncDiv(wx - map_origin[1], map_resolution),
     TruncDiv(wy - map_origin[2], map_resolution) >>

_map_to_world(cell) ==
  << cell[1] * map_resolution + map_origin[1],
     cell[2] * map_resolution + map_origin[2] >>

\* ------------------------------------------------------------------------
\* LidarController: scan filtering and sector query
\* ------------------------------------------------------------------------

\* a raw or published sample
Sample(q, a, d) == [quality |-> q, angle |-> a, distance |-> d]

RECURSIVE FilterScan(_)
\* the body of the scan loop: keeps the samples that pass the quality and
\* distance test (raw distances are millimetres) and converts the distance
\* to metres (here: metres * 1000)
FilterScan(scan) ==
  IF scan = <<>> THEN <<>>
  ELSE LET s == Head(scan)
           keep == s.quality > 10 /\ 1 < 10 * s.distance
                   /\ s.distance < max_distance * 1000
       IN  (IF keep THEN <<Sample(s.quality, s.angle, s.distance)>> ELSE <<>>)
           \o FilterScan(Tail(scan))

RECURSIVE InsertSorted(_, _)
InsertSorted(d, seq) ==
  IF seq = <<>> THEN <<d>>
  ELSE IF d < Head(seq) THEN <<d>> \o seq
  ELSE <<Head(seq)>> \o InsertSorted(d, Tail(seq))

RECURSIVE Sorted(_)
\* Python sorted() on a list of numbers
Sorted(seq) == IF seq = <<>> THEN <<>> ELSE InsertSorted(Head(seq), Sorted(Tail(seq)))

RECURSIVE SectorDistances_NoWrap(_, _, _)
\* faulty variant of SectorDistances: no wraparound of the angle difference
SectorDistances_NoWrap(scan, target_angle, angle_tolerance) ==
  IF scan = <<>> THEN <<>>
  ELSE LET s == Head(scan)
           angle_diff == Abs(s.angle - target_angle)
       IN  (IF angle_diff <= angle_tolerance THEN <<s.distance>> ELSE <<>>)
           \o SectorDistances_NoWrap(Tail(scan), target_angle, angle_tolerance)

RECURSIVE SectorDistances(_, _, _)
\* the loop of get_obstacles_in_direction, before the sort
SectorDistances(scan, target_angle, angle_tolerance) ==
  IF scan = <<>> THEN <<>>
  ELSE LET s == Head(scan)
           d0 == Abs(s.angle - target_angle)
           angle_diff == IF d0 > 180 THEN 360 - d0 ELSE d0
       IN  (IF angle_diff <= angle_tolerance THEN <<s.distance>> ELSE <<>>)
           \o SectorDistances(Tail(scan), target_angle, angle_tolerance)

get_obstacles_in_direction(scan, target_angle, angle_tolerance) ==
  Sorted(SectorDistances(scan, target_angle, angle_tolerance))

\* Python min() of a non-empty list
MinOf(seq) == CHOOSE m \in {seq[i] : i \in 1 .. Len(seq)} :
                 \A i \in 1 .. Len(seq) : m <= seq[i]

_check_immediate_obstacles(lidar, scan) ==
  IF ~lidar THEN FALSE
  ELSE LET obstacles == get_obstacles_in_direction(scan, 0, 30)
       IN  obstacles /= <<>> /\ MinOf(obstacles) < min_obstacle_distance

\* ------------------------------------------------------------------------
\* Scan ingestion (_update_slam, _update_ray_casting, _bresenham_line)
\* ------------------------------------------------------------------------

RECURSIVE BresenhamLoop(_, _, _, _, _, _)
BresenhamLoop(x, y, err, x1, y1, par) ==
  IF x = x1 /\ y = y1 THEN << <<x, y>> >>
  ELSE LET e2   == 2 * err
           stepx == e2 > -par.dy
           err1 == IF stepx THEN err - par.dy ELSE err
           nx   == IF stepx THEN x + par.sx ELSE x
           stepy == e2 < par.dx
           err2 == IF stepy THEN err1 + par.dx ELSE err1
           ny   == IF stepy THEN y + par.sy ELSE y
       IN  << <<x, y>> >> \o BresenhamLoop(nx, ny, err2, x1, y1, par)

_bresenham_line(x0, y0, x1, y1) ==
  LET dx == Abs(x1 - x0)
      dy == Abs(y1 - y0)
      sx == IF x0 < x1 THEN 1 ELSE -1
      sy == IF y0 < y1 THEN 1 ELSE -1
  IN  BresenhamLoop(x0, y0, dx - dy, x1, y1, [dx |-> dx, dy |-> dy, sx |-> sx, sy |-> sy])

\* one write self.occupancy_map[y, x] = v; an index outside the array
\* raises IndexError, recorded in err
WriteCell(st, x, y, v) ==
  IF st.err THEN st
  ELSE IF ~Indexable(x, y) THEN [st EXCEPT !.err = TRUE]
  ELSE [st EXCEPT !.map = [@ EXCEPT ![<<y, x>>] = v]]

RECURSIVE MarkFree_Unknown(_, _)
\* faulty variant of MarkFree: the cells of the ray are set back to unknown
MarkFree_Unknown(st, points) ==
  IF points = <<>> \/ st.err THEN st
  ELSE LET p == Head(points)
           st1 == IF InBounds(p[1], p[2]) THEN WriteCell(st, p[1], p[2], 5) ELSE st
       IN  MarkFree_Unknown(st1, Tail(points))

RECURSIVE MarkFree(_, _)
MarkFree(st, points) ==
  IF points = <<>> \/ st.err THEN st
  ELSE LET p == Head(points)
           st1 == IF InBounds(p[1], p[2]) THEN WriteCell(st, p[1], p[2], 0) ELSE st
       IN  MarkFree(st1, Tail(points))

\* faulty variant of _update_ray_casting: the endpoint is marked free as well
_update_ray_casting_WithEndpoint(st, x0, y0, x1, y1) ==
  MarkFree(st, _bresenham_line(x0, y0, x1, y1))

_update_ray_casting(st, x0, y0, x1, y1) ==
  LET points == _bresenham_line(x0, y0, x1, y1)
  IN  MarkFree(st, SubSeq(points, 1, Len(points) - 1))

\* endpoint cell of one sample: polar to Cartesian, then to map coordinates
EndpointCell(s) ==
  << TruncDiv(s.distance * Trig[s.angle].cos - map_origin[1] * 1000, map_resolution * 1000),
     TruncDiv(s.distance * Trig[s.angle].sin - map_origin[2] * 1000, map_resolution * 1000) >>

\* the map update for one endpoint cell: mark it occupied, then free the ray
IngestCell(st, c) ==
  IF InBounds(c[1], c[2])
  THEN LET occ == WriteCell(st, c[1], c[2], 10)
       IN  IF occ.err THEN occ ELSE _update_ray_casting(occ, 0, 0, c[1], c[2])
  ELSE st

RECURSIVE IngestSamples(_, _)
IngestSamples(st, scan) ==
  IF scan = <<>> \/ st.err THEN st
  ELSE IngestSamples(IngestCell(st, EndpointCell(Head(scan))), Tail(scan))

\* faulty variant of _update_slam: without scan data the grid is reset to
\* unknown
_update_slam_ResetOnEmpty(map, lidar, scan) ==
  IF ~lidar \/ scan = <<>> THEN [map |-> InitialMap, err |-> FALSE]
  ELSE IngestSamples([map |-> map, err |-> FALSE], scan)

\* returns [map, err]: the grid after the tick's ingestion and whether the
\* ingestion raised
_update_slam(map, lidar, scan) ==
  IF ~lidar \/ scan = <<>> THEN [map |-> map, err |-> FALSE]
  ELSE IngestSamples([map |-> map, err |-> FALSE], scan)

\* ------------------------------------------------------------------------
\* Path planner (_plan_path, _a_star, _heuristic, _get_neighbors,
\* _is_valid_cell)
\* ------------------------------------------------------------------------

_heuristic(a, b) == Abs(a[1] - b[1]) + Abs(a[2] - b[2])

\* the offsets in the order of the two nested loops over [-1, 0, 1]
NeighborOffsets ==
  << <<-1, -1>>, <<-1, 0>>, <<-1, 1>>, <<0, -1>>, <<0, 1>>, <<1, -1>>, <<1, 0>>, <<1, 1>> >>

\* faulty variant of _get_neighbors: the four diagonal neighbours are left out
_get_neighbors_Orthogonal(cell) ==
  [i \in 1 .. Len(NeighborOffsets) |->
     IF NeighborOffsets[i][1] /= 0 /\ NeighborOffsets[i][2] /= 0
     THEN cell
     ELSE <<cell[1] + NeighborOffsets[i][1], cell[2] + NeighborOffsets[i][2]>>]

_get_neighbors(cell) ==
  [i \in 1 .. Len(NeighborOffsets) |->
     <<cell[1] + NeighborOffsets[i][1], cell[2] + NeighborOffsets[i][2]>>]

\* int(self.safety_margin / self.map_resolution)
safety_cells == TruncDiv(safety_margin, map_resolution)

\* the cells of the square neighbourhood in the order the two nested range
\* loops visit them
SafetyOffsets ==
  LET w == 2 * safety_cells + 1
  IN  [k \in 1 .. w * w |-> <<((k - 1) \div w) - safety_cells, ((k - 1) % w) - safety_cells>>]

\* "valid", "invalid", or "raise" when the occupancy read is outside the array
_is_valid_cell(map, cell) ==
  IF ~InBounds(cell[1], cell[2]) THEN "invalid"
  ELSE LET stops(k) ==
             LET check_x == cell[1] + SafetyOffsets[k][1]
                 check_y == cell[2] + SafetyOffsets[k][2]
             IN  InBounds(check_x, check_y)
                 /\ (~Indexable(check_x, check_y) \/ map[<<check_y, check_x>>] > 7)
       IN  IF \A k \in 1 .. Len(SafetyOffsets) : ~stops(k) THEN "valid"
           ELSE LET first == CHOOSE k \in 1 .. Len(SafetyOffsets) :
                               stops(k) /\ \A j \in 1 .. (k - 1) : ~stops(j)
                IN  IF Indexable(cell[1] + SafetyOffsets[first][1],
                                 cell[2] + SafetyOffsets[first][2])
                    THEN "invalid" ELSE "raise"

\* heap order of the (f_score, cell) tuples
HeapLess(a, b) ==
  \/ a[1] < b[1]
  \/ a[1] = b[1] /\ a[2][1] < b[2][1]
  \/ a[1] = b[1] /\ a[2][1] = b[2][1] /\ a[2][2] < b[2][2]

HeapMin(open) == CHOOSE a \in open : \A b \in open : a = b \/ HeapLess(a, b)

RECURSIVE Reconstruct_ParentFirst(_, _, _)
\* faulty variant of Reconstruct: the link is followed before the cell is
\* appended
Reconstruct_ParentFirst(came_from, current, acc) ==
  IF current \in DOMAIN came_from
  THEN Reconstruct_ParentFirst(came_from, came_from[current], <<came_from[current]>> \o acc)
  ELSE acc

RECURSIVE Reconstruct(_, _, _)
\* the backtracking loop: the cells from current back to (excluding) the
\* first cell without a came_from link
Reconstruct(came_from, current, acc) ==
  IF current \in DOMAIN came_from
  THEN Reconstruct(came_from, came_from[current], <<current>> \o acc)
  ELSE acc

\* faulty variant of RelaxOne: a neighbour is pushed again when the
\* tentative g-score equals its g-score
RelaxOne_NonStrict(map, st, current, goal, i) ==
  LET neighbor == _get_neighbors(current)[i]
      v == _is_valid_cell(map, neighbor)
      tentative_g_score == st.g_score[current] + 1
  IN  IF st.err THEN st
      ELSE IF v = "raise" THEN [st EXCEPT !.err = TRUE]
      ELSE IF v = "invalid" THEN st
      ELSE IF neighbor \notin DOMAIN st.g_score \/ tentative_g_score <= st.g_score[neighbor]
      THEN [st EXCEPT
              !.came_from = (neighbor :> current) @@ @,
              !.g_score = (neighbor :> tentative_g_score) @@ @,
              !.open = @ \cup {<<tentative_g_score + _heuristic(neighbor, goal), neighbor>>}]
      ELSE st

\* the body of the for loop over the neighbours, for the i-th neighbour
RelaxOne(map, st, current, goal, i) ==
  LET neighbor == _get_neighbors(current)[i]
      v == _is_valid_cell(map, neighbor)
      tentative_g_score == st.g_score[current] + 1
  IN  IF st.err THEN st
      ELSE IF v = "raise" THEN [st EXCEPT !.err = TRUE]
      ELSE IF v = "invalid" THEN st
      ELSE IF neighbor \notin DOMAIN st.g_score \/ tentative_g_score < st.g_score[neighbor]
      THEN [st EXCEPT
              !.came_from = (neighbor :> current) @@ @,
              !.g_score = (neighbor :> tentative_g_score) @@ @,
              !.open = @ \cup {<<tentative_g_score + _heuristic(neighbor, goal), neighbor>>}]
      ELSE st

RECURSIVE RelaxNeighbors(_, _, _, _, _)
\* the for loop over the neighbours from the i-th on
RelaxNeighbors(map, st, current, goal, i) ==
  IF i > Len(NeighborOffsets) \/ st.err THEN st
  ELSE RelaxNeighbors(map, RelaxOne(map, st, current, goal, i), current, goal, i + 1)

RECURSIVE AStarLoop(_, _, _, _)
AStarLoop(map, st, start, goal) ==
  IF st.err THEN [err |-> TRUE, path |-> <<>>]
  ELSE IF st.open = {} THEN [err |-> FALSE, path |-> <<>>]
  ELSE LET top == HeapMin(st.open)
           current == top[2]
           popped == [st EXCEPT !.open = @ \ {top}]
       IN  IF current = goal
           THEN [err |-> FALSE, path |-> <<start>> \o Reconstruct(st.came_from, current, <<>>)]
           ELSE AStarLoop(map, RelaxNeighbors(map, popped, current, goal, 1), start, goal)

\* returns [err, path]: path is the list of cells, err an IndexError raised
\* by a cell-validity read
_a_star(map, start, goal) ==
  AStarLoop(map,
            [open |-> {<<0, start>>}, came_from |-> <<>>, g_score |-> (start :> 0), err |-> FALSE],
            start, goal)

\* poses are <<x, y, theta>>
_plan_path(map, start, goal) ==
  LET start_map == _world_to_map(start[1], start[2])
      goal_map  == _world_to_map(goal[1], goal[2])
      found     == _a_star(map, start_map, goal_map)
  IN  [err  |-> found.err,
       path |-> [i \in 1 .. Len(found.path) |->
                   <<_map_to_world(found.path[i])[1], _map_to_world(found.path[i])[2], 0>>]]

\* ------------------------------------------------------------------------
\* Path follower (_execute_path_following)
\* ------------------------------------------------------------------------

\* np.pi in units of 1e-4 rad
Pi == 31416

\* arctan(p / q) for 0 <= p, 0 < q, p / q <= tan(pi / 8), by its power series
\* in fixed point (1e-4)
AtanSmall(p, q) ==
  LET t  == (p * 10000) \div q
      t2 == (t * t) \div 10000
      t3 == (t2 * t) \div 10000
      t5 == (t3 * t2) \div 10000
      t7 == (t5 * t2) \div 10000
      t9 == (t7 * t2) \div 10000
  IN  t - (t3 \div 3) + (t5 \div 5) - (t7 \div 7) + (t9 \div 9)

\* arctan(p / q) for 0 <= p <= q, 0 < q
AtanUnit(p, q) ==
  IF p * 10000 <= 4142 * q THEN AtanSmall(p, q)
  ELSE (Pi \div 4) - AtanSmall(q - p, q + p)

\* arctan2(p, q) in the first quadrant, p >= 0, q >= 0, not both 0
AtanQuadrant(p, q) ==
  IF p <= q THEN AtanUnit(p, q) ELSE (Pi \div 2) - AtanUnit(q, p)

\* np.arctan2(y, x), result in [-Pi, Pi]
Arctan2(y, x) ==
  IF x = 0 /\ y = 0 THEN 0
  ELSE IF y >= 0 THEN (IF x >= 0 THEN AtanQuadrant(y, x) ELSE Pi - AtanQuadrant(y, -x))
  ELSE (IF x >= 0 THEN -AtanQuadrant(-y, x) ELSE -(Pi - AtanQuadrant(-y, -x)))

RECURSIVE NormalizeDown(_)
\* while angle_diff > np.pi: angle_diff -= 2 * np.pi
NormalizeDown(a) == IF a > Pi THEN NormalizeDown(a - 2 * Pi) ELSE a

RECURSIVE NormalizeUp(_)
\* while angle_diff < -np.pi: angle_diff += 2 * np.pi
NormalizeUp(a) == IF a < -Pi THEN NormalizeUp(a + 2 * Pi) ELSE a

NormalizeAngle(a) == NormalizeUp(NormalizeDown(a))

\* faulty variant of Clip: the upper limit is not applied
Clip_LowerOnly(v, lo, hi) == IF v < lo THEN lo ELSE v

\* np.clip
Clip(v, lo, hi) == IF v < lo THEN lo ELSE IF v > hi THEN hi ELSE v

\* the values update() returns
NoneResult == [kind |-> "None"]

Command(rot) == [kind |-> "command", base_rotation |-> rot, shoulder |-> 0, elbow |-> 0, wrist |-> 0]

ZeroCommand == Command(0)

\* the tick raised instead of returning
Raised == [kind |-> "raise"]

\* squared distance (mm^2) between a waypoint and the current position
Dist2(waypoint, pos) ==
  (waypoint[1] - pos[1]) * (waypoint[1] - pos[1]) + (waypoint[2] - pos[2]) * (waypoint[2] - pos[2])

\* faulty variant of CloseEnough: the threshold is 0.05 m
CloseEnough_Half(waypoint, pos) == Dist2(waypoint, pos) < 50 * 50

\* distance < 0.1
CloseEnough(waypoint, pos) == Dist2(waypoint, pos) < 100 * 100

\* the command computed from a waypoint: proportional control on the
\* normalised heading error, int(angular_velocity * 100)
SteerCommand(waypoint, pos) ==
  LET angle_to_target == Arctan2(waypoint[2] - pos[2], waypoint[1] - pos[1])
      angle_diff == NormalizeAngle(angle_to_target - pos[3])
      angular_velocity == Clip(angle_diff * 2, -10000, 10000)
  IN  Command(TruncDiv(angular_velocity, 100))

\* faulty variant of _execute_path_following: a reached waypoint makes the
\* follower drop the last waypoint of the path instead of the front one
_execute_path_following_PopLast(p, nav, pos) ==
  IF p = <<>> THEN [cmd |-> ZeroCommand, path |-> p, is_navigating |-> FALSE]
  ELSE LET next_waypoint == p[1]
           reached == CloseEnough(next_waypoint, pos)
           rest == IF reached THEN SubSeq(p, 1, Len(p) - 1) ELSE p
       IN  IF reached /\ rest = <<>>
           THEN [cmd |-> ZeroCommand, path |-> rest, is_navigating |-> FALSE]
           ELSE [cmd |-> SteerCommand(next_waypoint, pos), path |-> rest, is_navigating |-> nav]

\* returns [cmd, path, is_navigating]
_execute_path_following(p, nav, pos) ==
  IF p = <<>> THEN [cmd |-> ZeroCommand, path |-> p, is_navigating |-> FALSE]
  ELSE LET next_waypoint == p[1]
           reached == CloseEnough(next_waypoint, pos)
           rest == IF reached THEN Tail(p) ELSE p
       IN  IF reached /\ rest = <<>>
           THEN [cmd |-> ZeroCommand, path |-> rest, is_navigating |-> FALSE]
           ELSE [cmd |-> SteerCommand(next_waypoint, pos), path |-> rest, is_navigating |-> nav]

\* ------------------------------------------------------------------------
\* Inputs the environment supplies
\* ------------------------------------------------------------------------

\* longest raw scan the sensor delivers in the model
MaxScanLen == 2

\* raw samples (quality, angle in degrees, distance in millimetres)
RawSamples == { Sample(15, 0, 300), Sample(15, 330, 510), Sample(5, 0, 300) }

RawScans == UNION {[1 .. n -> RawSamples] : n \in 0 .. MaxScanLen}

\* targets handed to set_target: <<x, y, theta>>
Targets == { <<0, 250, 0>>, <<0, 0, 0>>, <<2000, 0, 0>> }

\* ------------------------------------------------------------------------
\* State
\* ------------------------------------------------------------------------

VARIABLES
  current_position,       \* self.current_position
  target_position,        \* self.target_position
  path,                   \* self.path
  is_navigating,          \* self.is_navigating
  emergency_stop_active,  \* self.emergency_stop_active
  occupancy_map,          \* self.occupancy_map
  has_lidar,              \* self.lidar_controller is not None
  scan_data,              \* LidarController.scan_data
  result,                 \* what the last call returned
  last_op,                \* the last operation called
  op_trace,               \* calls since the last emergency_stop()
  fn_in,                  \* arguments of the function under test
  fn_out                  \* what the function under test returned

vars == << current_position, target_position, path, is_navigating, emergency_stop_active,
           occupancy_map, has_lidar, scan_data, result, last_op, op_trace, fn_in, fn_out >>

\* the fields of NavigationSystem
nav_vars == << current_position, target_position, path, is_navigating, emergency_stop_active,
               occupancy_map >>

NoCall == [kind |-> "none"]

Init ==
  /\ current_position = <<0, 0, 0>>
  /\ target_position = <<0, 0, 0>>
  /\ path = <<>>
  /\ is_navigating = FALSE
  /\ emergency_stop_active = FALSE
  /\ occupancy_map = InitialMap
  /\ has_lidar \in BOOLEAN
  /\ scan_data = <<>>
  /\ result = NoneResult
  /\ last_op = "init"
  /\ op_trace = "none"
  /\ fn_in = NoCall
  /\ fn_out = NoCall

\* ------------------------------------------------------------------------
\* Operations
\* ------------------------------------------------------------------------

\* one iteration of the scan worker: filter the raw scan and publish it
ScanPublish(raw) ==
  /\ has_lidar
  /\ scan_data' = FilterScan(raw)
  /\ UNCHANGED << current_position, target_position, path, is_navigating,
                  emergency_stop_active, occupancy_map, has_lidar, result, last_op, op_trace,
                  fn_in, fn_out >>

\* faulty variant of Tick: the follower runs before the obstacle check
Tick_FollowFirst(map, lidar, scan, p, nav, pos) ==
  LET slam == _update_slam(map, lidar, scan)
  IN  IF nav /\ Len(p) > 0
      THEN LET f == _execute_path_following(p, nav, pos)
           IN  [map |-> slam.map, result |-> f.cmd, path |-> f.path,
                is_navigating |-> f.is_navigating]
      ELSE IF _check_immediate_obstacles(lidar, scan)
      THEN [map |-> slam.map, result |-> ZeroCommand, path |-> p, is_navigating |-> nav]
      ELSE [map |-> slam.map, result |-> NoneResult, path |-> p, is_navigating |-> nav]

\* faulty variant of Tick: an idle tick returns the zero command
Tick_IdleZero(map, lidar, scan, p, nav, pos) ==
  LET slam == _update_slam(map, lidar, scan)
  IN  IF _check_immediate_obstacles(lidar, scan)
      THEN [map |-> slam.map, result |-> ZeroCommand, path |-> p, is_navigating |-> nav]
      ELSE IF nav /\ Len(p) > 0
      THEN LET f == _execute_path_following(p, nav, pos)
           IN  [map |-> slam.map, result |-> f.cmd, path |-> f.path,
                is_navigating |-> f.is_navigating]
      ELSE [map |-> slam.map, result |-> ZeroCommand, path |-> p, is_navigating |-> nav]

\* faulty variant of Tick: a path of one waypoint is not followed
Tick_NeedsTwo(map, lidar, scan, p, nav, pos) ==
  LET slam == _update_slam(map, lidar, scan)
  IN  IF _check_immediate_obstacles(lidar, scan)
      THEN [map |-> slam.map, result |-> ZeroCommand, path |-> p, is_navigating |-> nav]
      ELSE IF nav /\ Len(p) > 1
      THEN LET f == _execute_path_following(p, nav, pos)
           IN  [map |-> slam.map, result |-> f.cmd, path |-> f.path,
                is_navigating |-> f.is_navigating]
      ELSE [map |-> slam.map, result |-> NoneResult, path |-> p, is_navigating |-> nav]

\* what update() does below the emergency check: [map, result, path, is_navigating]
Tick(map, lidar, scan, p, nav, pos) ==
  LET slam == _update_slam(map, lidar, scan)
  IN  IF slam.err
      THEN [map |-> slam.map, result |-> Raised, path |-> p, is_navigating |-> nav]
      ELSE IF _check_immediate_obstacles(lidar, scan)
      THEN [map |-> slam.map, result |-> ZeroCommand, path |-> p, is_navigating |-> nav]
      ELSE IF nav /\ Len(p) > 0
      THEN LET f == _execute_path_following(p, nav, pos)
           IN  [map |-> slam.map, result |-> f.cmd, path |-> f.path,
                is_navigating |-> f.is_navigating]
      ELSE [map |-> slam.map, result |-> NoneResult, path |-> p, is_navigating |-> nav]

\* faulty variant of update: the emergency flag is consulted only when no
\* path is active
update_FollowBeforeStop ==
  /\ last_op' = "update"
  /\ op_trace' = IF op_trace \in {"stop,resume", "stop,resume,target", "stop,target,resume"}
                 THEN op_trace \o ",update" ELSE "none"
  /\ IF emergency_stop_active /\ ~(is_navigating /\ Len(path) > 0)
     THEN /\ result' = ZeroCommand
          /\ UNCHANGED << occupancy_map, path, is_navigating >>
     ELSE \E t \in {Tick(occupancy_map, has_lidar, scan_data, path, is_navigating,
                         current_position)} :
            /\ occupancy_map' = t.map
            /\ result' = t.result
            /\ path' = t.path
            /\ is_navigating' = t.is_navigating
  /\ UNCHANGED << current_position, target_position, emergency_stop_active, has_lidar,
                  scan_data, fn_in, fn_out >>

update ==
  /\ last_op' = "update"
  /\ op_trace' = IF op_trace \in {"stop,resume", "stop,resume,target", "stop,target,resume"}
                 THEN op_trace \o ",update" ELSE "none"
  /\ IF emergency_stop_active
     THEN /\ result' = ZeroCommand
          /\ UNCHANGED << occupancy_map, path, is_navigating >>
     ELSE \E t \in {Tick(occupancy_map, has_lidar, scan_data, path, is_navigating,
                         current_position)} :
            /\ occupancy_map' = t.map
            /\ result' = t.result
            /\ path' = t.path
            /\ is_navigating' = t.is_navigating
  /\ UNCHANGED << current_position, target_position, emergency_stop_active, has_lidar,
                  scan_data, fn_in, fn_out >>

set_target(x, y, theta) ==
  \E plan \in {_plan_path(occupancy_map, current_position, <<x, y, theta>>)} :
    /\ target_position' = <<x, y, theta>>
    /\ last_op' = "set_target"
    /\ IF plan.err
       THEN /\ result' = Raised
            /\ op_trace' = "none"
            /\ UNCHANGED << path, is_navigating >>
       ELSE /\ result' = NoneResult
            /\ path' = plan.path
            /\ is_navigating' = IF plan.path /= <<>> THEN TRUE ELSE is_navigating
            /\ op_trace' = IF plan.path = <<>> THEN "none"
                           ELSE IF op_trace = "stop" THEN "stop,target"
                           ELSE IF op_trace = "stop,resume" THEN "stop,resume,target"
                           ELSE "none"
    /\ UNCHANGED << current_position, emergency_stop_active, occupancy_map, has_lidar,
                    scan_data, fn_in, fn_out >>

\* faulty variant of emergency_stop: the path is kept
emergency_stop_KeepPath ==
  /\ emergency_stop_active' = TRUE
  /\ is_navigating' = FALSE
  /\ result' = NoneResult
  /\ last_op' = "emergency_stop"
  /\ op_trace' = "stop"
  /\ UNCHANGED << current_position, target_position, path, occupancy_map, has_lidar,
                  scan_data, fn_in, fn_out >>

emergency_stop ==
  /\ emergency_stop_active' = TRUE
  /\ is_navigating' = FALSE
  /\ path' = <<>>
  /\ result' = NoneResult
  /\ last_op' = "emergency_stop"
  /\ op_trace' = "stop"
  /\ UNCHANGED << current_position, target_position, occupancy_map, has_lidar, scan_data,
                  fn_in, fn_out >>

\* faulty variant of resume: navigation toward the stored target is switched
\* back on
resume_Restart ==
  /\ emergency_stop_active' = FALSE
  /\ is_navigating' = TRUE
  /\ result' = NoneResult
  /\ last_op' = "resume"
  /\ op_trace' = IF op_trace = "stop" THEN "stop,resume"
                 ELSE IF op_trace = "stop,target" THEN "stop,target,resume"
                 ELSE "none"
  /\ UNCHANGED << current_position, target_position, path, occupancy_map,
                  has_lidar, scan_data, fn_in, fn_out >>

resume ==
  /\ emergency_stop_active' = FALSE
  /\ result' = NoneResult
  /\ last_op' = "resume"
  /\ op_trace' = IF op_trace = "stop" THEN "stop,resume"
                 ELSE IF op_trace = "stop,target" THEN "stop,target,resume"
                 ELSE "none"
  /\ UNCHANGED << current_position, target_position, path, is_navigating, occupancy_map,
                  has_lidar, scan_data, fn_in, fn_out >>

\* faulty variant of shutdown: the grid is reset to unknown
shutdown_ResetMap ==
  /\ is_navigating' = FALSE
  /\ path' = <<>>
  /\ occupancy_map' = InitialMap
  /\ result' = NoneResult
  /\ last_op' = "shutdown"
  /\ op_trace' = "none"
  /\ UNCHANGED << current_position, target_position, emergency_stop_active,
                  has_lidar, scan_data, fn_in, fn_out >>

shutdown ==
  /\ is_navigating' = FALSE
  /\ path' = <<>>
  /\ result' = NoneResult
  /\ last_op' = "shutdown"
  /\ op_trace' = "none"
  /\ UNCHANGED << current_position, target_position, emergency_stop_active, occupancy_map,
                  has_lidar, scan_data, fn_in, fn_out >>

Next ==
  \/ update
  \/ \E t \in Targets : set_target(t[1], t[2], t[3])
  \/ emergency_stop
  \/ resume
  \/ shutdown
  \/ \E raw \in RawScans : ScanPublish(raw)

Spec == Init /\ [][Next]_vars

TypeOK ==
  /\ is_navigating \in BOOLEAN
  /\ emergency_stop_active \in BOOLEAN
  /\ result.kind \in {"None", "command", "raise"}

\* ------------------------------------------------------------------------
\* Properties of the navigation state machine (checked under Spec)
\* ------------------------------------------------------------------------

\* the obstacle check of the tick that starts in the current state
ObstacleNow == _check_immediate_obstacles(has_lidar, scan_data)

\* C1: whenever the emergency-stop flag is set, update() returns the
\* all-zero command, whatever the path, the navigating flag and the scan are
C1_StopForcesZero ==
  [][(update /\ emergency_stop_active) => result' = ZeroCommand]_vars

\* an update() that ran while stopped although set_target had installed a
\* path during the stop
C1_Witness ==
  /\ last_op = "update"
  /\ emergency_stop_active
  /\ is_navigating
  /\ path /= <<>>
  /\ result = ZeroCommand

\* C2: emergency_stop_active implies not navigating and an empty path, after
\* any sequence of public operations
C2_StopImpliesIdle ==
  emergency_stop_active => (~is_navigating /\ path = <<>>)

\* C3: a set_target whose planning returned an empty path leaves
\* is_navigating false and the path empty
C3_PlanFailureLeavesIdle ==
  (last_op = "set_target" /\ result = NoneResult /\ path = <<>>) => ~is_navigating

\* C4: not stopped and an immediate obstacle: the tick returns the zero
\* command and leaves the flag, the navigating flag and the path alone; a
\* tick without obstacle then follows the path that is still there
C4_ObstacleTickFreezes ==
  [][update =>
       /\ (~emergency_stop_active /\ ObstacleNow)
            => (result' = ZeroCommand
                /\ UNCHANGED << emergency_stop_active, is_navigating, path >>)
       /\ (~emergency_stop_active /\ ~ObstacleNow /\ is_navigating /\ path /= <<>>)
            => (result'.kind = "command" /\ path' \in {path, Tail(path)})
    ]_vars

\* a tick stopped by an obstacle while a path is active
C4_Witness ==
  /\ last_op = "update"
  /\ ~emergency_stop_active
  /\ ObstacleNow
  /\ is_navigating
  /\ path /= <<>>
  /\ result = ZeroCommand

\* C5: update() returns None exactly when not stopped, no immediate obstacle
\* and no active path; in every other case it returns a command
C5_NoneIffIdle ==
  [][update =>
       /\ (result' = NoneResult)
            <=> (/\ ~emergency_stop_active
                 /\ ~ObstacleNow
                 /\ ~(is_navigating /\ path /= <<>>))
       /\ result'.kind \in {"None", "command"}
    ]_vars

\* an idle tick that ingested a scan: no obstacle, flag still set from an
\* earlier target whose re-plan failed, no path
C5_Witness ==
  /\ last_op = "update"
  /\ result = NoneResult
  /\ scan_data /= <<>>
  /\ is_navigating
  /\ path = <<>>

\* C7: emergency_stop() sets the flag, clears the navigating flag and the
\* path from every state, and a second call changes no field
C7_StopAlwaysWins ==
  /\ [](ENABLED emergency_stop)
  /\ [][emergency_stop =>
          /\ emergency_stop_active' /\ ~is_navigating' /\ path' = <<>>
          /\ (last_op = "emergency_stop") => UNCHANGED nav_vars
       ]_vars

\* a stop that interrupted navigation toward a target
C7_Witness ==
  /\ last_op = "emergency_stop"
  /\ emergency_stop_active
  /\ ~is_navigating
  /\ path = <<>>
  /\ target_position /= current_position

\* C8: resume() clears the flag and leaves path, navigating flag, target,
\* position and grid alone; after emergency_stop(); resume() the path is
\* still empty and an update() without obstacle returns None
C8_ResumeOnlyClearsFlag ==
  /\ [](ENABLED resume)
  /\ [][resume =>
          /\ ~emergency_stop_active'
          /\ UNCHANGED << path, is_navigating, target_position, current_position,
                          occupancy_map >>
       ]_vars
  /\ [](op_trace = "stop,resume" => (path = <<>> /\ ~is_navigating))
  /\ [][(update /\ op_trace = "stop,resume" /\ ~ObstacleNow) => result' = NoneResult]_vars

\* emergency_stop(); resume(); update() on a system that had a target
C8_Witness ==
  /\ op_trace = "stop,resume,update"
  /\ target_position /= current_position
  /\ result = NoneResult
  /\ path = <<>>

\* C9: after emergency_stop(), resume() and a successful set_target (the
\* last two in either order) the next update() without obstacle runs the
\* path follower: it returns a command, and the front waypoint is consumed
\* exactly when it is within 0.1 m
C9_FollowsAfterResume ==
  /\ [](op_trace \in {"stop,resume,target", "stop,target,resume"}
          => (~emergency_stop_active /\ is_navigating /\ path /= <<>>))
  /\ [][(update /\ op_trace \in {"stop,resume,target", "stop,target,resume"} /\ ~ObstacleNow)
          => /\ result'.kind = "command"
             /\ path' = IF CloseEnough(path[1], current_position) THEN Tail(path) ELSE path
       ]_vars

\* the tick after emergency_stop(); set_target(); resume() returned a
\* command and consumed the first waypoint
C9_Witness ==
  /\ op_trace = "stop,target,resume,update"
  /\ result.kind = "command"
  /\ is_navigating
  /\ Len(path) = 1

\* C18: without a range sensor, or with an empty latest scan, a tick leaves
\* the grid unchanged, sees no immediate obstacle and does not raise; its
\* result follows from the emergency flag and the active path alone
C18_NoDataTickIsNoop ==
  [][(update /\ (~has_lidar \/ scan_data = <<>>))
       => /\ occupancy_map' = occupancy_map
          /\ ~ObstacleNow
          /\ result'.kind /= "raise"
          /\ IF emergency_stop_active
             THEN result' = ZeroCommand /\ UNCHANGED << path, is_navigating >>
             ELSE IF is_navigating /\ path /= <<>>
             THEN LET f == _execute_path_following(path, is_navigating, current_position)
                  IN  result' = f.cmd /\ path' = f.path /\ is_navigating' = f.is_navigating
             ELSE result' = NoneResult /\ UNCHANGED << path, is_navigating >>
    ]_vars

\* a tick on an empty scan that followed the path and left alone a grid
\* that earlier scans had written
C18_Witness ==
  /\ last_op = "update"
  /\ has_lidar
  /\ scan_data = <<>>
  /\ ~emergency_stop_active
  /\ occupancy_map /= InitialMap
  /\ result.kind = "command"

\* ------------------------------------------------------------------------
\* The front-sector query as a function of the published scan
\* (checked under SpecSector)
\* ------------------------------------------------------------------------

\* longest raw scan fed to the sector query
MaxSectorLen == 2

SectorRawSamples ==
  {Sample(15, a, d) : a \in {0, 30, 31, 180, 329, 330}, d \in {300, 499, 500}}

SectorRawScans == UNION {[1 .. n -> SectorRawSamples] : n \in 0 .. MaxSectorLen}

SectorInit ==
  /\ current_position = <<0, 0, 0>>
  /\ target_position = <<0, 0, 0>>
  /\ path = <<>>
  /\ is_navigating = FALSE
  /\ emergency_stop_active = FALSE
  /\ occupancy_map = InitialMap
  /\ has_lidar = TRUE
  /\ scan_data \in {FilterScan(raw) : raw \in SectorRawScans}
  /\ result = NoneResult
  /\ last_op = "init"
  /\ op_trace = "none"
  /\ fn_in = NoCall
  /\ fn_out = NoCall

\* the calls _check_immediate_obstacles makes on the published scan
CheckFront ==
  /\ fn_out = NoCall
  /\ fn_out' = [kind |-> "sector",
                obstacles |-> get_obstacles_in_direction(scan_data, 0, 30),
                immediate |-> _check_immediate_obstacles(has_lidar, scan_data)]
  /\ UNCHANGED << current_position, target_position, path, is_navigating,
                  emergency_stop_active, occupancy_map, has_lidar, scan_data, result,
                  last_op, op_trace, fn_in >>

SectorNext == CheckFront

SpecSector == SectorInit /\ [][SectorNext]_vars

\* angular distance of a scan angle from the forward axis
WrapDistance(a) == IF Abs(a) < 360 - Abs(a) THEN Abs(a) ELSE 360 - Abs(a)

InFrontSector(s) == WrapDistance(s.angle) <= 30

Count(seq, v) == Cardinality({i \in 1 .. Len(seq) : seq[i] = v})

\* C6: the obstacle check is true iff some sample of the published scan is
\* within 30 degrees (wraparound) of the forward axis and strictly closer
\* than 0.5 m; the sector query returns exactly the in-sector distances, in
\* ascending order
C6_FrontSectorCheck ==
  fn_out.kind = "sector" =>
    /\ fn_out.immediate
         <=> \E i \in 1 .. Len(scan_data) :
               InFrontSector(scan_data[i]) /\ scan_data[i].distance < 500
    /\ \A i \in 1 .. Len(fn_out.obstacles) - 1 : fn_out.obstacles[i] <= fn_out.obstacles[i + 1]
    /\ \A d \in {scan_data[i].distance : i \in 1 .. Len(scan_data)}
                 \cup {fn_out.obstacles[i] : i \in 1 .. Len(fn_out.obstacles)} :
         Count(fn_out.obstacles, d)
           = Cardinality({i \in 1 .. Len(scan_data) :
                            InFrontSector(scan_data[i]) /\ scan_data[i].distance = d})

\* an obstacle seen only through the wraparound side of the sector, in a
\* scan whose in-sector samples arrive in descending order
C6_Witness ==
  /\ fn_out.kind = "sector"
  /\ fn_out.immediate
  /\ \A i \in 1 .. Len(scan_data) : scan_data[i].angle > 180
  /\ Len(fn_out.obstacles) = 2
  /\ scan_data[1].distance > scan_data[2].distance
  /\ fn_out.obstacles[1] < fn_out.obstacles[2]

\* ------------------------------------------------------------------------
\* The planner as a function of grid, start and goal (checked under
\* SpecPlanner)
\* ------------------------------------------------------------------------

Cells == (0 .. map_size[1] - 1) \X (0 .. map_size[2] - 1)

RECURSIVE GridFromEndpoints(_, _)
\* the grid after ingesting samples whose endpoint cells are the given ones
GridFromEndpoints(st, cells) ==
  IF cells = <<>> THEN st.map
  ELSE GridFromEndpoints(IngestCell(st, Head(cells)), Tail(cells))

\* all cells, column by column
AllCellsSeq ==
  [k \in 1 .. map_size[1] * map_size[2] |->
     <<(k - 1) \div map_size[2], (k - 1) % map_size[2]>>]

\* distance, in ray-casting steps, of a cell from the ray origin (0, 0)
RayLength(c) == IF c[1] > c[2] THEN c[1] ELSE c[2]

RECURSIVE FarthestFirst(_, _)
\* the cells other than skip at ray length d, d - 1, ..., 0: ingested in this
\* order, no ray frees an endpoint marked before it
FarthestFirst(d, skip) ==
  IF d < 0 THEN <<>>
  ELSE SelectSeq(AllCellsSeq, LAMBDA c : RayLength(c) = d /\ c /= skip)
         \o FarthestFirst(d - 1, skip)

\* the endpoint cells of the scans ingested before planning: none, any one
\* cell, two cells of the diagonal, two cells three apart on an
\* anti-diagonal, or every cell but one
EndpointLists ==
  {<<>>} \cup {<<c>> : c \in Cells}
         \cup {<<a, b>> : a \in {c \in Cells : c[1] = c[2]}, b \in {c \in Cells : c[1] = c[2]}}
         \cup {<<a, <<a[1] - 3, a[2] + 3>>>> : a \in {c \in Cells : <<c[1] - 3, c[2] + 3>> \in Cells}}
         \cup {FarthestFirst(MapN - 1, skip) : skip \in Cells}

PlannerGrids ==
  { GridFromEndpoints([map |-> InitialMap, err |-> FALSE], cells) : cells \in EndpointLists }

\* a goal cell outside the map
OutsideCell == <<map_size[1] + 1, 0>>

PlannerInit ==
  /\ current_position = <<0, 0, 0>>
  /\ target_position = <<0, 0, 0>>
  /\ path = <<>>
  /\ is_navigating = FALSE
  /\ emergency_stop_active = FALSE
  /\ occupancy_map \in PlannerGrids
  /\ has_lidar = TRUE
  /\ scan_data = <<>>
  /\ result = NoneResult
  /\ last_op = "init"
  /\ op_trace = "none"
  /\ fn_in \in [kind : {"plan"}, start : Cells, goal : Cells \cup {OutsideCell}]
  /\ fn_out = NoCall

RunAStar ==
  /\ fn_out = NoCall
  /\ \E found \in {_a_star(occupancy_map, fn_in.start, fn_in.goal)} :
       fn_out' = [kind |-> "plan", path |-> found.path, err |-> found.err]
  /\ UNCHANGED << current_position, target_position, path, is_navigating,
                  emergency_stop_active, occupancy_map, has_lidar, scan_data, result,
                  last_op, op_trace, fn_in >>

PlannerNext == RunAStar

SpecPlanner == PlannerInit /\ [][PlannerNext]_vars

Adjacent8(a, b) == Abs(a[1] - b[1]) <= 1 /\ Abs(a[2] - b[2]) <= 1 /\ a /= b

Chebyshev(a, b) ==
  IF Abs(a[1] - b[1]) > Abs(a[2] - b[2]) THEN Abs(a[1] - b[1]) ELSE Abs(a[2] - b[2])

\* C10: a non-empty A* path starts at the start cell, ends at the goal cell,
\* moves between 8-adjacent cells, and every cell after the first is valid;
\* on a grid without a cell above 0.7 a plan between two in-bounds cells is
\* non-empty
C10_PathWellFormed ==
  fn_out.kind = "plan" =>
    LET p == fn_out.path
    IN  /\ ~fn_out.err
        /\ p /= <<>> =>
             /\ p[1] = fn_in.start
             /\ p[Len(p)] = fn_in.goal
             /\ \A i \in 1 .. Len(p) - 1 : Adjacent8(p[i], p[i + 1])
             /\ \A i \in 2 .. Len(p) : _is_valid_cell(occupancy_map, p[i]) = "valid"
        /\ (/\ \A rc \in ArrayIndices : occupancy_map[rc] <= 7
            /\ InBounds(fn_in.goal[1], fn_in.goal[2]))
             => p /= <<>>

\* a path that goes around the inflated neighbourhood of an occupied cell
C10_Witness ==
  /\ fn_out.kind = "plan"
  /\ \E rc \in ArrayIndices : occupancy_map[rc] = 10
  /\ Len(fn_out.path) > Chebyshev(fn_in.start, fn_in.goal) + 1

\* the cells the planner may step on
ValidCells(map) == {c \in Cells : _is_valid_cell(map, c) = "valid"}

RECURSIVE Connected(_, _)
\* the cells of V joined to a cell of S by a chain of 8-adjacent cells of V
Connected(S, V) ==
  LET T == S \cup {c \in V : \E s \in S : Adjacent8(s, c)}
  IN  IF T = S THEN S ELSE Connected(T, V)

\* every cell except the start cell has occupancy 1.0
BlockedExcept(map, start) ==
  \A c \in Cells : c /= start => map[<<c[2], c[1]>>] = 10

\* C11: for valid, distinct start and goal cells A* returns a non-empty path
\* iff the goal is joined to the start by a chain of 8-adjacent valid cells;
\* on a grid where every cell but the start is occupied a plan to another
\* cell is empty
C11_PathIffReachable ==
  fn_out.kind = "plan" =>
    LET V == ValidCells(occupancy_map)
    IN  /\ (fn_in.start /= fn_in.goal /\ fn_in.start \in V /\ fn_in.goal \in V)
             => (fn_out.path /= <<>> <=> fn_in.goal \in Connected({fn_in.start}, V))
        /\ (fn_in.start /= fn_in.goal /\ BlockedExcept(occupancy_map, fn_in.start))
             => fn_out.path = <<>>

\* valid start and goal cells that the inflated obstacles separate: the
\* plan is empty
C11_Witness ==
  /\ fn_out.kind = "plan"
  /\ fn_in.start /= fn_in.goal
  /\ _is_valid_cell(occupancy_map, fn_in.start) = "valid"
  /\ _is_valid_cell(occupancy_map, fn_in.goal) = "valid"
  /\ fn_out.path = <<>>

\* a plan on the grid whose only cell below 1.0 is the start cell
C11_BlockedReached ==
  /\ fn_out.kind = "plan"
  /\ fn_in.start /= fn_in.goal
  /\ BlockedExcept(occupancy_map, fn_in.start)
  /\ occupancy_map[<<fn_in.start[2], fn_in.start[1]>>] < 10

\* C12: a plan whose start cell or goal cell is not a valid cell is empty,
\* also when start and goal are the same cell
C12_InvalidEndsGiveEmpty ==
  fn_out.kind = "plan" =>
    ((\/ _is_valid_cell(occupancy_map, fn_in.start) /= "valid"
      \/ _is_valid_cell(occupancy_map, fn_in.goal) /= "valid")
       => fn_out.path = <<>>)

\* ------------------------------------------------------------------------
\* Cell validity as a function of grid and cell (checked under SpecValid)
\* ------------------------------------------------------------------------

ValidInit ==
  /\ current_position = <<0, 0, 0>>
  /\ target_position = <<0, 0, 0>>
  /\ path = <<>>
  /\ is_navigating = FALSE
  /\ emergency_stop_active = FALSE
  /\ occupancy_map \in PlannerGrids
  /\ has_lidar = TRUE
  /\ scan_data = <<>>
  /\ result = NoneResult
  /\ last_op = "init"
  /\ op_trace = "none"
  /\ fn_in \in [kind : {"valid"}, cell : Cells \cup {OutsideCell}]
  /\ fn_out = NoCall

CheckCell ==
  /\ fn_out = NoCall
  /\ fn_out' = [kind |-> "valid", valid |-> _is_valid_cell(occupancy_map, fn_in.cell)]
  /\ UNCHANGED << current_position, target_position, path, is_navigating,
                  emergency_stop_active, occupancy_map, has_lidar, scan_data, result,
                  last_op, op_trace, fn_in >>

ValidNext == CheckCell

SpecValid == ValidInit /\ [][ValidNext]_vars

\* ceil(a / b) for a >= 0, b > 0
CeilDiv(a, b) == (a + b - 1) \div b

\* no in-bounds cell of the square of the given radius around the cell has
\* occupancy above 0.7
ClearWithin(map, cell, radius) ==
  \A dx \in -radius .. radius : \A dy \in -radius .. radius :
    InBounds(cell[1] + dx, cell[2] + dy) => map[<<cell[2] + dy, cell[1] + dx>>] <= 7

\* C13: a cell is valid iff it is in bounds and no in-bounds cell of the
\* square neighbourhood of radius ceil(safety_margin / resolution) around it
\* has occupancy above 0.7
C13_ValidIffClearWithinCeil ==
  fn_out.kind = "valid" =>
    (fn_out.valid = "valid"
       <=> (/\ InBounds(fn_in.cell[1], fn_in.cell[2])
            /\ ClearWithin(occupancy_map, fn_in.cell, CeilDiv(safety_margin, map_resolution))))

\* ------------------------------------------------------------------------
\* The tick as a function of pose, path and flags (checked under
\* SpecFollower), and the normalisation loop as a function of the heading
\* error
\* ------------------------------------------------------------------------

\* longest path handed to the follower
MaxPathLen == 2

\* waypoints as _plan_path produces them: world coordinates of cells,
\* heading 0
FollowWaypoints ==
  { <<_map_to_world(c)[1], _map_to_world(c)[2], 0>> :
      c \in { <<2, 2>>, <<3, 2>>, <<2, 1>>, <<1, 3>> } }

FollowPaths == UNION {[1 .. n -> FollowWaypoints] : n \in 0 .. MaxPathLen}

\* positions (mm) and headings (1e-4 rad) of the current pose
FollowPositions == { <<0, 0>>, <<99, 0>>, <<100, 0>>, <<250, 70>> }

Headings == { 0, 2000, 15708, Pi, -Pi, 40000, -40000 }

FollowPoses == { <<p[1], p[2], h>> : p \in FollowPositions, h \in Headings }

\* np.arctan2 of the offsets from a position to a waypoint
Bearings ==
  { Arctan2(w[2] - p[2], w[1] - p[1]) : w \in FollowWaypoints, p \in FollowPositions }

\* angle_to_target - self.current_position[2]
HeadingErrors == { b - h : b \in Bearings, h \in Headings }

FollowerInit ==
  /\ target_position = <<0, 0, 0>>
  /\ occupancy_map = InitialMap
  /\ has_lidar = TRUE
  /\ result = NoneResult
  /\ last_op = "init"
  /\ op_trace = "none"
  /\ fn_out = NoCall
  /\ \/ /\ fn_in = NoCall
        /\ current_position \in FollowPoses
        /\ path \in FollowPaths
        /\ is_navigating \in BOOLEAN
        /\ path /= <<>> => is_navigating
        /\ emergency_stop_active \in BOOLEAN
        /\ scan_data \in {<<>>, FilterScan(<<Sample(15, 0, 300)>>)}
     \/ /\ fn_in \in [kind : {"normalize"}, error : HeadingErrors]
        /\ current_position = <<0, 0, 0>>
        /\ path = <<>>
        /\ is_navigating = FALSE
        /\ emergency_stop_active = FALSE
        /\ scan_data = <<>>

\* the two while loops on angle_diff
NormalizeError ==
  /\ fn_in.kind = "normalize"
  /\ fn_out = NoCall
  /\ fn_out' = [kind |-> "normalize", angle_diff |-> NormalizeAngle(fn_in.error)]
  /\ UNCHANGED << current_position, target_position, path, is_navigating,
                  emergency_stop_active, occupancy_map, has_lidar, scan_data, result,
                  last_op, op_trace, fn_in >>

FollowerNext ==
  \/ fn_in = NoCall /\ update
  \/ NormalizeError

SpecFollower == FollowerInit /\ [][FollowerNext]_vars

\* squared distance (mm^2) from the current pose to the front waypoint
FrontDistance2 ==
  (path[1][1] - current_position[1]) * (path[1][1] - current_position[1])
    + (path[1][2] - current_position[2]) * (path[1][2] - current_position[2])

\* C14: a following tick whose front waypoint is closer than 0.1 m removes
\* exactly that waypoint; if it was the last one the path is empty, the
\* navigating flag is cleared and the all-zero command is returned
C14_ClosePopsFront ==
  [][(/\ update
      /\ ~emergency_stop_active /\ ~ObstacleNow
      /\ is_navigating /\ path /= <<>>
      /\ FrontDistance2 < 100 * 100)
       => /\ path' = Tail(path)
          /\ Tail(path) = <<>> => (~is_navigating' /\ result' = ZeroCommand)
    ]_vars

\* a tick that consumed the last waypoint from 0.099 m away
C14_Witness ==
  /\ last_op = "update"
  /\ ~emergency_stop_active
  /\ ~ObstacleNow
  /\ current_position[1] = 99
  /\ path = <<>>
  /\ ~is_navigating
  /\ result = ZeroCommand

\* C15: every command update() returns has shoulder, elbow and wrist 0 and
\* an integer base_rotation between -100 and 100
C15_CommandShape ==
  result.kind = "command" =>
    /\ result.shoulder = 0 /\ result.elbow = 0 /\ result.wrist = 0
    /\ result.base_rotation \in -100 .. 100

\* a command below the clamp, and one on the negative side
C15_Witness ==
  /\ last_op = "update"
  /\ result.kind = "command"
  /\ result.base_rotation < 0
  /\ result.base_rotation > -100

\* C16: the normalised heading error lies in (-pi, pi] and differs from the
\* error by a multiple of 2 pi; in particular -pi becomes +pi
C16_NormalizedHalfOpen ==
  fn_out.kind = "normalize" =>
    /\ -Pi < fn_out.angle_diff
    /\ fn_out.angle_diff <= Pi
    /\ (fn_out.angle_diff - fn_in.error) % (2 * Pi) = 0

\* ------------------------------------------------------------------------
\* Scan ingestion as a function of grid and published scan, and the
\* world-to-grid conversion as a function of the point (checked under
\* SpecIngest)
\* ------------------------------------------------------------------------

\* longest raw scan fed to the ingestion
MaxIngestLen == 2

IngestRawSamples ==
  {Sample(15, a, d) : a \in {0, 30, 180, 330}, d \in {150, 300, 400, 510, 600}}

IngestRawScans == UNION {[1 .. n -> IngestRawSamples] : n \in 0 .. MaxIngestLen}

\* the grid before the tick: untouched, or every cell marked occupied by
\* earlier scans
IngestGrids ==
  { InitialMap,
    GridFromEndpoints([map |-> InitialMap, err |-> FALSE],
                      FarthestFirst(MapN - 1, OutsideCell)) }

\* world points (mm) handed to _world_to_map
WorldPoints ==
  { <<x, y>> : x \in {-600, -500, -499, -1, 0, 249, 250, 499, 500}, y \in {-510, 0} }

IngestInit ==
  /\ current_position = <<0, 0, 0>>
  /\ target_position = <<0, 0, 0>>
  /\ path = <<>>
  /\ is_navigating = FALSE
  /\ emergency_stop_active = FALSE
  /\ has_lidar = TRUE
  /\ result = NoneResult
  /\ last_op = "init"
  /\ op_trace = "none"
  /\ fn_out = NoCall
  /\ \/ /\ fn_in = NoCall
        /\ occupancy_map \in IngestGrids
        /\ scan_data \in {FilterScan(raw) : raw \in IngestRawScans}
     \/ /\ fn_in \in [kind : {"convert"}, point : WorldPoints]
        /\ occupancy_map = InitialMap
        /\ scan_data = <<>>

ConvertPoint ==
  /\ fn_in.kind = "convert"
  /\ fn_out = NoCall
  /\ fn_out' = [kind |-> "convert", cell |-> _world_to_map(fn_in.point[1], fn_in.point[2])]
  /\ UNCHANGED << current_position, target_position, path, is_navigating,
                  emergency_stop_active, occupancy_map, has_lidar, scan_data, result,
                  last_op, op_trace, fn_in >>

IngestNext ==
  \/ fn_in = NoCall /\ update
  \/ ConvertPoint

SpecIngest == IngestInit /\ [][IngestNext]_vars

\* the cells of the rasterised line from grid cell (0, 0) to cell e
LineCells(e) ==
  LET points == _bresenham_line(0, 0, e[1], e[2])
  IN  {points[i] : i \in 1 .. Len(points)}

\* the rasterised line joins (0, 0) to e through 8-adjacent cells, one per
\* step of the longer axis
LineJoins(e) ==
  LET points == _bresenham_line(0, 0, e[1], e[2])
  IN  /\ Len(points) = RayLength(e) + 1
      /\ points[1] = <<0, 0>>
      /\ points[Len(points)] = e
      /\ \A i \in 1 .. Len(points) - 1 : Adjacent8(points[i], points[i + 1])

\* C17: a tick that ingests a one-sample scan whose endpoint cell E is in
\* bounds leaves E at 1.0, every other cell of the rasterised line from
\* cell (0, 0) to E at 0.0, and every cell off the line as it was; for E on
\* the x axis the freed cells are (0, 0) .. (E.x - 1, 0)
C17_SingleRayIngest ==
  [][(/\ update
      /\ ~emergency_stop_active /\ has_lidar
      /\ Len(scan_data) = 1
      /\ InBounds(EndpointCell(scan_data[1])[1], EndpointCell(scan_data[1])[2]))
       => LET E == EndpointCell(scan_data[1])
          IN  /\ LineJoins(E)
              /\ occupancy_map'[<<E[2], E[1]>>] = 10
              /\ \A c \in Cells :
                    /\ (c \in LineCells(E) /\ c /= E) => occupancy_map'[<<c[2], c[1]>>] = 0
                    /\ c \notin LineCells(E)
                         => occupancy_map'[<<c[2], c[1]>>] = occupancy_map[<<c[2], c[1]>>]
              /\ E[2] = 0 => \A k \in 0 .. E[1] - 1 : occupancy_map'[<<0, k>>] = 0
    ]_vars

\* a ray along the x axis ingested into a grid that was fully occupied: the
\* cells before the endpoint are free, the endpoint and the cells off the
\* line are still occupied
C17_Witness ==
  /\ last_op = "update"
  /\ Len(scan_data) = 1
  /\ EndpointCell(scan_data[1])[2] = 0
  /\ EndpointCell(scan_data[1])[1] >= 2
  /\ InBounds(EndpointCell(scan_data[1])[1], 0)
  /\ occupancy_map[<<0, EndpointCell(scan_data[1])[1]>>] = 10
  /\ occupancy_map[<<0, 1>>] = 0
  /\ occupancy_map[<<1, 1>>] = 10

\* the world point (thousandths of mm) of a sample lies outside the extent
\* of the map
EndpointOutside(s) ==
  LET wx == s.distance * Trig[s.angle].cos
      wy == s.distance * Trig[s.angle].sin
  IN  \/ wx < map_origin[1] * 1000
      \/ wx >= (map_origin[1] + map_size[1] * map_resolution) * 1000
      \/ wy < map_origin[2] * 1000
      \/ wy >= (map_origin[2] + map_size[2] * map_resolution) * 1000

\* C19: _world_to_map is floor((coordinate - origin) / resolution) on each
\* axis, so a coordinate below the map origin gives a negative index; a tick
\* whose scan endpoints all lie outside the map changes no cell
C19_FloorConversion ==
  /\ [](fn_out.kind = "convert"
          => fn_out.cell = << (fn_in.point[1] - map_origin[1]) \div map_resolution,
                              (fn_in.point[2] - map_origin[2]) \div map_resolution >>)
  /\ [][(/\ update
          /\ \A i \in 1 .. Len(scan_data) : EndpointOutside(scan_data[i]))
           => occupancy_map' = occupancy_map]_vars

\* ------------------------------------------------------------------------
\* The coordinate conversions in floating-point arithmetic (checked under
\* SpecRoundTrip).  A float is an integer number of units of 2^-16; every
\* operation rounds its exact result to Precision significant bits, ties to
\* even, as IEEE 754 does with 53 bits.
\* ------------------------------------------------------------------------

\* significand width of the modelled floats; 9 leaves the significand of
\* 0.05 (binary 1.1001 1001 ...) rounded the same way as the 53 bits of a
\* Python float do
Precision == 9

\* one, in float units
FUnit == 2 ^ 16

\* side of the map whose cells are converted, slam.map_size = [FloatMapN,
\* FloatMapN]
FloatMapN == 8

RECURSIVE BitLength(_)
BitLength(n) == IF n = 0 THEN 0 ELSE 1 + BitLength(n \div 2)

\* num / den rounded to the nearest integer, ties to even (num >= 0, den > 0)
RoundHalfEven(num, den) ==
  LET fl  == num \div den
      rem == num % den
  IN  IF 2 * rem > den \/ (2 * rem = den /\ fl % 2 = 1) THEN fl + 1 ELSE fl

\* an exact result rounded to a float
FRound(n) ==
  LET a == Abs(n)
      shift == BitLength(a) - Precision
  IN  IF shift <= 0 THEN n
      ELSE (IF n < 0 THEN -1 ELSE 1) * RoundHalfEven(a, 2 ^ shift) * (2 ^ shift)

\* float + float, float - float, int * float
FAdd(x, y) == FRound(x + y)

FSub(x, y) == FRound(x - y)

FMulInt(i, x) == FRound(i * x)

RECURSIVE QuotExp(_, _, _)
\* the exponent e that puts a * 2^e / b at Precision significant bits
QuotExp(a, b, e) ==
  IF a * (2 ^ e) >= b * (2 ^ (Precision - 1)) THEN e ELSE QuotExp(a, b, e + 1)

\* x / y for y > 0
FDiv(x, y) ==
  IF x = 0 THEN 0
  ELSE LET a == Abs(x)
           e == QuotExp(a, y, 0)
       IN  (IF x < 0 THEN -1 ELSE 1) * RoundHalfEven(a * (2 ^ e), y) * (FUnit \div (2 ^ e))

\* int(x)
FTrunc(x) == TruncDiv(x, FUnit)

\* the configured resolutions 0.25 and 0.05 as floats
FloatResolutions == { FDiv(1, 4), FDiv(1, 20) }

\* -self.map_size[k] * self.map_resolution / 2
map_origin_fp(res) ==
  << FDiv(FMulInt(-FloatMapN, res), 2 * FUnit), FDiv(FMulInt(-FloatMapN, res), 2 * FUnit) >>

_map_to_world_fp(res, cell) ==
  << FAdd(FMulInt(cell[1], res), map_origin_fp(res)[1]),
     FAdd(FMulInt(cell[2], res), map_origin_fp(res)[2]) >>

_world_to_map_fp(res, pos) ==
  << FTrunc(FDiv(FSub(pos[1], map_origin_fp(res)[1]), res)),
     FTrunc(FDiv(FSub(pos[2], map_origin_fp(res)[2]), res)) >>

RoundTripInit ==
  /\ current_position = <<0, 0, 0>>
  /\ target_position = <<0, 0, 0>>
  /\ path = <<>>
  /\ is_navigating = FALSE
  /\ emergency_stop_active = FALSE
  /\ occupancy_map = InitialMap
  /\ has_lidar = TRUE
  /\ scan_data = <<>>
  /\ result = NoneResult
  /\ last_op = "init"
  /\ op_trace = "none"
  /\ fn_in \in [kind : {"roundtrip"}, resolution : FloatResolutions,
                 cell : (0 .. FloatMapN - 1) \X (0 .. FloatMapN - 1)]
  /\ fn_out = NoCall

\* self._world_to_map(self._map_to_world(cell))
RoundTrip ==
  /\ fn_out = NoCall
  /\ fn_out' = [kind |-> "roundtrip",
                cell |-> _world_to_map_fp(fn_in.resolution,
                                          _map_to_world_fp(fn_in.resolution, fn_in.cell))]
  /\ UNCHANGED << current_position, target_position, path, is_navigating,
                  emergency_stop_active, occupancy_map, has_lidar, scan_data, result,
                  last_op, op_trace, fn_in >>

RoundTripNext == RoundTrip

SpecRoundTrip == RoundTripInit /\ [][RoundTripNext]_vars

\* C20: converting an in-bounds cell to world coordinates and back gives
\* the cell
C20_RoundTrip ==
  fn_out.kind = "roundtrip" => fn_out.cell = fn_in.cell

\* ------------------------------------------------------------------------
\* The array accesses of scan ingestion for a configured map size [W, H]
\* (checked under SpecShape)
\* ------------------------------------------------------------------------

\* the configured sizes [W, H]
MapSizes == (2 .. MapN) \X (2 .. MapN)

\* the bounds test of the source, for map_size = size
InBoundsOf(size, x, y) == 0 <= x /\ x < size[1] /\ 0 <= y /\ y < size[2]

\* occupancy_map[y, x] is inside np.ones(size): size[1] rows, size[2] columns
IndexableOf(size, x, y) == 0 <= y /\ y < size[1] /\ 0 <= x /\ x < size[2]

\* map_origin for map_size = size
OriginOf(size) ==
  << -((size[1] * map_resolution) \div 2), -((size[2] * map_resolution) \div 2) >>

EndpointCellOf(size, s) ==
  << TruncDiv(s.distance * Trig[s.angle].cos - OriginOf(size)[1] * 1000, map_resolution * 1000),
     TruncDiv(s.distance * Trig[s.angle].sin - OriginOf(size)[2] * 1000, map_resolution * 1000) >>

\* the cells <<x, y>> whose array element occupancy_map[y, x] the ingestion
\* of one sample touches: the endpoint, then the in-bounds cells of the ray
AccessesOf(size, s) ==
  LET c == EndpointCellOf(size, s)
      points == _bresenham_line(0, 0, c[1], c[2])
  IN  IF InBoundsOf(size, c[1], c[2])
      THEN <<c>> \o SelectSeq(SubSeq(points, 1, Len(points) - 1),
                               LAMBDA p : InBoundsOf(size, p[1], p[2]))
      ELSE <<>>

\* some access of the ingestion of the scan raises IndexError
IngestRaises(size, scan) ==
  \E i \in 1 .. Len(scan) :
    \E k \in 1 .. Len(AccessesOf(size, scan[i])) :
      ~IndexableOf(size, AccessesOf(size, scan[i])[k][1], AccessesOf(size, scan[i])[k][2])

ShapeInit ==
  /\ current_position = <<0, 0, 0>>
  /\ target_position = <<0, 0, 0>>
  /\ path = <<>>
  /\ is_navigating = FALSE
  /\ emergency_stop_active = FALSE
  /\ occupancy_map = InitialMap
  /\ has_lidar = TRUE
  /\ scan_data \in {FilterScan(raw) : raw \in IngestRawScans}
  /\ result = NoneResult
  /\ last_op = "init"
  /\ op_trace = "none"
  /\ fn_in \in [kind : {"shape"}, map_size : MapSizes]
  /\ fn_out = NoCall

\* the scan ingestion of update() on a map of the configured size
IngestOnShape ==
  /\ fn_out = NoCall
  /\ fn_out' = [kind |-> "shape", raised |-> IngestRaises(fn_in.map_size, scan_data)]
  /\ UNCHANGED << current_position, target_position, path, is_navigating,
                  emergency_stop_active, occupancy_map, has_lidar, scan_data, result,
                  last_op, op_trace, fn_in >>

ShapeNext == IngestOnShape

SpecShape == ShapeInit /\ [][ShapeNext]_vars

\* C21: for every configured size [W, H] and every scan, every array access
\* of the ingestion is inside the allocated array: update() does not raise
C21_AccessesInsideArray ==
  fn_out.kind = "shape" => ~fn_out.raised

\* on square maps the ingestion never raises
C21_SquareIsSafe ==
  (fn_out.kind = "shape" /\ fn_in.map_size[1] = fn_in.map_size[2]) => ~fn_out.raised

\* ------------------------------------------------------------------------
\* The scan worker's filter on raw readings (checked under SpecFilter)
\* ------------------------------------------------------------------------

MaxFilterLen == 2

\* raw readings around both ends of the accepted range, in millimetres
FilterRawSamples ==
  { Sample(q, a, d) : q \in {10, 11}, a \in {0, 90, 180},
                      d \in {0, 50, 100, 101, 11999, 12000} }

FilterRawScans ==
  UNION { [1 .. n -> FilterRawSamples] : n \in 0 .. MaxFilterLen }

FilterInit ==
  /\ current_position = <<0, 0, 0>>
  /\ target_position = <<0, 0, 0>>
  /\ path = <<>>
  /\ is_navigating = FALSE
  /\ emergency_stop_active = FALSE
  /\ occupancy_map = InitialMap
  /\ has_lidar = TRUE
  /\ scan_data = <<>>
  /\ result = NoneResult
  /\ last_op = "init"
  /\ op_trace = "none"
  /\ fn_in = NoCall
  /\ fn_out = NoCall

FilterNext == \E raw \in FilterRawScans : ScanPublish(raw)

SpecFilter == FilterInit /\ [][FilterNext]_vars

\* C22: every published sample has quality > 10 and a distance strictly
\* between 0.1 m and the configured maximum (distances in millimetres)
C22_PublishedInRange ==
  \A i \in 1 .. Len(scan_data) :
    /\ scan_data[i].quality > 10
    /\ 100 < scan_data[i].distance
    /\ scan_data[i].distance < max_distance * 1000

\* what the filter does guarantee: quality > 10 and a distance strictly
\* between 0.1 mm and the configured maximum
C22_PublishedAboveTenthMillimetre ==
  \A i \in 1 .. Len(scan_data) :
    /\ scan_data[i].quality > 10
    /\ 1 < 10 * scan_data[i].distance
    /\ scan_data[i].distance < max_distance * 1000

\* ------------------------------------------------------------------------
\* The scan worker and a reader thread, one statement at a time
\* (checked under SpecWorker)
\*
\* fn_in holds the LidarController's objects and the two threads' frames:
\* heap (the list objects, a list's identity is its index), ref (the list
\* self.scan_data refers to), lock (the holder of scan_lock), the worker's
\* position wpc with its locals raw, i, cur (the list filtered_scan refers
\* to), the reader's position rpc with its local tmp, and the complete
\* filtered lists published so far. fn_out holds the lists get_scan_data()
\* has returned, each with the worker's position at the return; scan_data
\* is the content of the list self.scan_data refers to.
\* ------------------------------------------------------------------------

MaxIterations == 2
MaxReads == 2

\* the scans iter_scans() yields: two kept samples, a rejected sample
\* between kept ones, a rejected sample only
WorkerRawScans ==
  { << Sample(15, 0, 300), Sample(15, 180, 300) >>,
    << Sample(15, 180, 300), Sample(5, 0, 300), Sample(15, 0, 300) >>,
    << Sample(5, 0, 300) >> }

InitialLidar ==
  [ kind |-> "lidar", heap |-> << <<>> >>, ref |-> 1, lock |-> "free",
    wpc |-> "next", raw |-> <<>>, i |-> 1, cur |-> 1, iterations |-> 0,
    rpc |-> "idle", tmp |-> 1, reads |-> 0, published |-> {} ]

WorkerInit ==
  /\ current_position = <<0, 0, 0>>
  /\ target_position = <<0, 0, 0>>
  /\ path = <<>>
  /\ is_navigating = FALSE
  /\ emergency_stop_active = FALSE
  /\ occupancy_map = InitialMap
  /\ has_lidar = TRUE
  /\ scan_data = <<>>
  /\ result = NoneResult
  /\ last_op = "init"
  /\ op_trace = "none"
  /\ fn_in = InitialLidar
  /\ fn_out = [kind |-> "reads", returned |-> <<>>]

\* one statement of either thread takes the controller to next
LidarStep(next) ==
  /\ fn_in' = next
  /\ scan_data' = next.heap[next.ref]
  /\ UNCHANGED << current_position, target_position, path, is_navigating,
                  emergency_stop_active, occupancy_map, has_lidar, result, last_op,
                  op_trace >>

\* faulty variant of WorkerBegins: the worker empties and refills the
\* published list in place
WorkerBegins_InPlace ==
  /\ fn_in.wpc = "next"
  /\ fn_in.iterations < MaxIterations
  /\ \E raw \in WorkerRawScans :
       LidarStep([fn_in EXCEPT !.heap[fn_in.ref] = <<>>, !.cur = fn_in.ref,
                               !.wpc = "filter", !.raw = raw, !.i = 1])
  /\ UNCHANGED fn_out

\* for scan in iter_scans(): filtered_scan = []
WorkerBegins ==
  /\ fn_in.wpc = "next"
  /\ fn_in.iterations < MaxIterations
  /\ \E raw \in WorkerRawScans :
       LidarStep([fn_in EXCEPT !.heap = Append(@, <<>>), !.cur = Len(fn_in.heap) + 1,
                               !.wpc = "filter", !.raw = raw, !.i = 1])
  /\ UNCHANGED fn_out

\* one pass of the inner for loop: test a reading, append it converted
WorkerFilters ==
  /\ fn_in.wpc = "filter"
  /\ LidarStep(IF fn_in.i <= Len(fn_in.raw)
               THEN [fn_in EXCEPT !.heap[fn_in.cur] = @ \o FilterScan(<<fn_in.raw[fn_in.i]>>),
                                  !.i = @ + 1]
               ELSE [fn_in EXCEPT !.wpc = "lock"])
  /\ UNCHANGED fn_out

\* with self.scan_lock: (entry)
WorkerAcquires ==
  /\ fn_in.wpc = "lock"
  /\ fn_in.lock = "free"
  /\ LidarStep([fn_in EXCEPT !.lock = "worker", !.wpc = "assign"])
  /\ UNCHANGED fn_out

\* self.scan_data = filtered_scan
WorkerAssigns ==
  /\ fn_in.wpc = "assign"
  /\ LidarStep([fn_in EXCEPT !.ref = fn_in.cur, !.wpc = "unlock",
                             !.published = @ \cup {FilterScan(fn_in.raw)}])
  /\ UNCHANGED fn_out

\* with self.scan_lock: (exit)
WorkerReleases ==
  /\ fn_in.wpc = "unlock"
  /\ LidarStep([fn_in EXCEPT !.lock = "free", !.wpc = "next", !.iterations = @ + 1])
  /\ UNCHANGED fn_out

\* get_scan_data(): with self.scan_lock: (entry)
ReaderAcquires ==
  /\ fn_in.rpc = "idle"
  /\ fn_in.reads < MaxReads
  /\ fn_in.lock = "free"
  /\ LidarStep([fn_in EXCEPT !.lock = "reader", !.rpc = "copy"])
  /\ UNCHANGED fn_out

\* self.scan_data.copy()
ReaderCopies ==
  /\ fn_in.rpc = "copy"
  /\ LidarStep([fn_in EXCEPT !.heap = Append(@, fn_in.heap[fn_in.ref]),
                             !.tmp = Len(fn_in.heap) + 1, !.rpc = "unlock"])
  /\ UNCHANGED fn_out

\* with self.scan_lock: (exit), and the return
ReaderReturns ==
  /\ fn_in.rpc = "unlock"
  /\ LidarStep([fn_in EXCEPT !.lock = "free", !.rpc = "idle", !.reads = @ + 1])
  /\ fn_out' = [fn_out EXCEPT !.returned =
                   Append(@, [obj |-> fn_in.tmp, value |-> fn_in.heap[fn_in.tmp],
                               during |-> fn_in.wpc])]

WorkerNext ==
  \/ WorkerBegins
  \/ WorkerFilters
  \/ WorkerAcquires
  \/ WorkerAssigns
  \/ WorkerReleases
  \/ ReaderAcquires
  \/ ReaderCopies
  \/ ReaderReturns

SpecWorker == WorkerInit /\ [][WorkerNext]_vars

\* C23: under every interleaving a list returned by get_scan_data() is the
\* initial empty scan or the complete filtered list of one worker iteration,
\* and it still has the content it was returned with
C23_ReturnsWholeScans ==
  fn_out.kind = "reads" =>
    \A k \in 1 .. Len(fn_out.returned) :
      /\ fn_out.returned[k].value \in {<<>>} \cup fn_in.published
      /\ fn_in.heap[fn_out.returned[k].obj] = fn_out.returned[k].value

\* a read returned a two-sample scan while the worker was filtering the
\* next scan, and a later read returned that next scan
C23_Witness ==
  /\ fn_out.kind = "reads"
  /\ Len(fn_out.returned) = 2
  /\ Len(fn_out.returned[1].value) = 2
  /\ fn_out.returned[1].during = "filter"
  /\ fn_out.returned[2].value # fn_out.returned[1].value
  /\ fn_out.returned[2].value # <<>>

\* ------------------------------------------------------------------------
\* get_map() from a second thread while update() ingests a scan, one sample
\* at a time (checked under SpecSnapshot)
\*
\* fn_in is the frame of the tick in flight: its position pc, its local
\* scan_data, the index i of the next sample, and the grid at the start of
\* the tick. fn_out is what the last get_map() returned, with the grids at
\* the two boundaries of the tick that was in flight.
\* ------------------------------------------------------------------------

IdleTick == [kind |-> "tick", pc |-> "idle", scan |-> <<>>, i |-> 1, before |-> InitialMap]

SnapshotInit ==
  /\ current_position = <<0, 0, 0>>
  /\ target_position = <<0, 0, 0>>
  /\ path = <<>>
  /\ is_navigating = FALSE
  /\ emergency_stop_active = FALSE
  /\ occupancy_map = InitialMap
  /\ has_lidar = TRUE
  /\ scan_data \in {FilterScan(raw) : raw \in IngestRawScans}
  /\ result = NoneResult
  /\ last_op = "init"
  /\ op_trace = "none"
  /\ fn_in = IdleTick
  /\ fn_out = NoCall

\* update() up to the head of the for loop of _update_slam
UpdateBegins ==
  /\ fn_in.pc = "idle"
  /\ ~emergency_stop_active
  /\ has_lidar /\ scan_data # <<>>
  /\ fn_in' = [kind |-> "tick", pc |-> "ingest", scan |-> scan_data, i |-> 1,
               before |-> occupancy_map]
  /\ UNCHANGED << current_position, target_position, path, is_navigating,
                  emergency_stop_active, occupancy_map, has_lidar, scan_data, result,
                  last_op, op_trace, fn_out >>

\* one pass of the for loop of _update_slam
UpdateIngestsSample ==
  /\ fn_in.pc = "ingest"
  /\ fn_in.i <= Len(fn_in.scan)
  /\ occupancy_map' =
       IngestCell([map |-> occupancy_map, err |-> FALSE],
                  EndpointCell(fn_in.scan[fn_in.i])).map
  /\ fn_in' = [fn_in EXCEPT !.i = @ + 1]
  /\ UNCHANGED << current_position, target_position, path, is_navigating,
                  emergency_stop_active, has_lidar, scan_data, result, last_op,
                  op_trace, fn_out >>

\* the rest of update(): nothing is navigating, it returns None
UpdateReturns ==
  /\ fn_in.pc = "ingest"
  /\ fn_in.i > Len(fn_in.scan)
  /\ fn_in' = [IdleTick EXCEPT !.before = occupancy_map]
  /\ result' = NoneResult
  /\ last_op' = "update"
  /\ UNCHANGED << current_position, target_position, path, is_navigating,
                  emergency_stop_active, occupancy_map, has_lidar, scan_data,
                  op_trace, fn_out >>

\* a tick is between the start and the end of its ingestion
IngestionInFlight == fn_in.kind = "tick" /\ fn_in.pc = "ingest"

\* get_map(): a copy of the grid as it is now; no lock is taken
get_map ==
  /\ fn_out' = [kind |-> "map", copy |-> occupancy_map,
                before |-> IF IngestionInFlight THEN fn_in.before ELSE occupancy_map,
                after |-> IF IngestionInFlight
                          THEN _update_slam(fn_in.before, TRUE, fn_in.scan).map
                          ELSE occupancy_map]
  /\ fn_out' # fn_out
  /\ UNCHANGED << current_position, target_position, path, is_navigating,
                  emergency_stop_active, occupancy_map, has_lidar, scan_data, result,
                  last_op, op_trace, fn_in >>

SnapshotNext ==
  \/ UpdateBegins
  \/ UpdateIngestsSample
  \/ UpdateReturns
  \/ get_map

SpecSnapshot == SnapshotInit /\ [][SnapshotNext]_vars

\* C24: a get_map() concurrent with update() returns the grid of a tick
\* boundary: the grid before that tick's ingestion or the grid after all of it
C24_SnapshotAtTickBoundary ==
  fn_out.kind = "map" => fn_out.copy \in {fn_out.before, fn_out.after}

\* the sample steps compose to the whole ingestion of the tick
C24_StepsComposeToIngestion ==
  (fn_in.kind = "tick" /\ fn_in.pc = "ingest" /\ fn_in.i > Len(fn_in.scan)) =>
    occupancy_map = _update_slam(fn_in.before, TRUE, fn_in.scan).map

\* ------------------------------------------------------------------------
\* Every operation of the navigation system, get_map() included
\* (checked under SpecFrame)
\* ------------------------------------------------------------------------

\* the scans published between the operations: none kept, an obstacle
\* ahead, an obstacle to the right, a near obstacle on the ray to the one
\* ahead
FrameRawScans ==
  { << Sample(5, 0, 300) >>, << Sample(15, 0, 300) >>, << Sample(15, 330, 510) >>,
    << Sample(15, 330, 200) >> }

FrameNext ==
  \/ update
  \/ \E t \in Targets : set_target(t[1], t[2], t[3])
  \/ emergency_stop
  \/ resume
  \/ shutdown
  \/ get_map
  \/ \E raw \in FrameRawScans : ScanPublish(raw)

SpecFrame == Init /\ [][FrameNext]_vars

\* C25: the grid is changed only by the ingestion of an update() that is not
\* emergency-stopped; set_target, emergency_stop, resume, get_map, shutdown
\* and update() while stopped leave every cell and the grid's dimensions
\* unchanged (resolution and origin are fixed at construction and are
\* definitions of the model)
C25_GridChangedOnlyByIngestion ==
  [][ /\ (occupancy_map' # occupancy_map) =>
           (update /\ ~emergency_stop_active /\ has_lidar /\ scan_data # <<>>)
      /\ DOMAIN occupancy_map' = DOMAIN occupancy_map
      /\ (\/ emergency_stop \/ resume \/ shutdown \/ get_map
          \/ last_op' = "set_target" /\ result' # result
          \/ update /\ emergency_stop_active) => occupancy_map' = occupancy_map ]_vars

\* after a scan was ingested, get_map, emergency_stop, an update() while
\* stopped and shutdown have run and the grid is still the ingested one
C25_Witness ==
  /\ occupancy_map # InitialMap
  /\ fn_out.kind = "map"
  /\ fn_out.copy = occupancy_map
  /\ emergency_stop_active
  /\ last_op = "shutdown"
  /\ target_position # <<0, 0, 0>>

\* C35: every grid cell holds 0.0 (free), 0.5 (unknown) or 1.0 (occupied) in
\* every reachable state, all cells are 0.5 right after construction, and no
\* operation returns a cell that is free or occupied to 0.5
C35_CellValues ==
  /\ \A c \in DOMAIN occupancy_map : occupancy_map[c] = 5
  /\ [](\A c \in DOMAIN occupancy_map : occupancy_map[c] \in {0, 5, 10})
  /\ [][ \A c \in DOMAIN occupancy_map :
            occupancy_map[c] # 5 => (c \in DOMAIN occupancy_map' /\ occupancy_map'[c] # 5) ]_vars

\* after ingestions and a shutdown the grid has free, occupied and unknown
\* cells, and the cell <<1, 2>> that one scan marked occupied was freed by
\* the ray of a later scan whose endpoint <<2, 3>> is occupied
C35_Witness ==
  /\ last_op = "shutdown"
  /\ \E b \in DOMAIN occupancy_map : occupancy_map[b] = 5
  /\ occupancy_map[<<0, 0>>] = 0
  /\ occupancy_map[<<1, 2>>] = 0
  /\ occupancy_map[<<0, 1>>] = 0
  /\ occupancy_map[<<2, 3>>] = 10


\* ------------------------------------------------------------------------

\* C26: at the end of a scan's ingestion the endpoint cell of every sample
\* whose endpoint is in bounds is occupied (1.0), whatever the order of the
\* samples and whichever rays cross it
C26_EndpointsStayOccupied ==
  [][ (update /\ ~emergency_stop_active) =>
        \A i \in 1 .. Len(scan_data) :
          InBounds(EndpointCell(scan_data[i])[1], EndpointCell(scan_data[i])[2]) =>
            occupancy_map'[<<EndpointCell(scan_data[i])[2],
                             EndpointCell(scan_data[i])[1]>>] = 10 ]_vars

\* what the ingestion does guarantee: the last sample's endpoint is occupied
C26_LastEndpointOccupied ==
  [][ (update /\ ~emergency_stop_active /\ scan_data # <<>>) =>
        LET c == EndpointCell(scan_data[Len(scan_data)])
        IN  InBounds(c[1], c[2]) => occupancy_map'[<<c[2], c[1]>>] = 10 ]_vars

\* the cell of the robot's assumed position: sample endpoints are computed
\* relative to world (0, 0)
RobotCell == _world_to_map(0, 0)

\* the cells of the rasterised line from cell a to cell e
RayCells(a, e) ==
  LET points == _bresenham_line(a[1], a[2], e[1], e[2])
  IN  {points[i] : i \in 1 .. Len(points)}

\* C27: the free-space ray of a sample starts at the robot's cell, the cell
\* of world (0, 0) from which the endpoint is computed: a tick that ingests
\* a one-sample scan with in-bounds endpoint E frees the cells of the line
\* from the robot's cell to E, E excluded, and no other cell
C27_RayStartsAtRobotCell ==
  [][(/\ update
      /\ ~emergency_stop_active /\ has_lidar
      /\ Len(scan_data) = 1
      /\ InBounds(EndpointCell(scan_data[1])[1], EndpointCell(scan_data[1])[2]))
       => LET E == EndpointCell(scan_data[1])
          IN  \A c \in Cells \ {E} :
                IF c \in RayCells(RobotCell, E)
                THEN occupancy_map'[<<c[2], c[1]>>] = 0
                ELSE occupancy_map'[<<c[2], c[1]>>] = occupancy_map[<<c[2], c[1]>>]
    ]_vars

\* ------------------------------------------------------------------------
\* emergency_stop() from a second thread while update() is in flight, one
\* statement group at a time (checked under SpecRace)
\*
\* fn_in is the frame of the tick: its position pc, its local next_waypoint,
\* whether emergency_stop() has returned, and the result the tick would give
\* if it ran without interruption. fn_out is what the last update() returned
\* and whether emergency_stop() had returned by then.
\* ------------------------------------------------------------------------

IdleFrame ==
  [kind |-> "tick", pc |-> "idle", next_waypoint |-> <<0, 0, 0>>, stopped |-> FALSE,
   atomic |-> NoneResult]

RaceInit ==
  /\ target_position = <<0, 0, 0>>
  /\ occupancy_map = InitialMap
  /\ has_lidar = TRUE
  /\ result = NoneResult
  /\ last_op = "init"
  /\ op_trace = "none"
  /\ current_position \in FollowPoses
  /\ path \in FollowPaths
  /\ is_navigating \in BOOLEAN
  /\ path /= <<>> => is_navigating
  /\ emergency_stop_active = FALSE
  /\ scan_data \in {<<>>, FilterScan(<<Sample(15, 0, 300)>>)}
  /\ fn_in = IdleFrame
  /\ fn_out = NoCall

\* update() returns r
TickReturns(r) ==
  /\ fn_in' = [IdleFrame EXCEPT !.stopped = fn_in.stopped]
  /\ fn_out' = [kind |-> "race", result |-> r, stopped |-> fn_in.stopped,
                atomic |-> fn_in.atomic]
  /\ result' = r
  /\ last_op' = "update"

\* if self.emergency_stop_active: return the all-zero command
TickChecksFlag ==
  /\ fn_in.pc = "idle"
  /\ IF emergency_stop_active
     THEN /\ TickReturns(ZeroCommand)
          /\ fn_out' # fn_out
     ELSE /\ fn_in' = [fn_in EXCEPT !.pc = "checked",
                                    !.atomic = Tick(occupancy_map, has_lidar, scan_data, path,
                                                    is_navigating, current_position).result]
          /\ UNCHANGED << fn_out, result, last_op >>
  /\ UNCHANGED << current_position, target_position, path, is_navigating,
                  emergency_stop_active, occupancy_map, has_lidar, scan_data, op_trace >>

\* self._update_slam(); if self._check_immediate_obstacles(): return zero
TickSensesObstacles ==
  /\ fn_in.pc = "checked"
  /\ occupancy_map' = _update_slam(occupancy_map, has_lidar, scan_data).map
  /\ IF _check_immediate_obstacles(has_lidar, scan_data)
     THEN TickReturns(ZeroCommand)
     ELSE /\ fn_in' = [fn_in EXCEPT !.pc = "clear"]
          /\ UNCHANGED << fn_out, result, last_op >>
  /\ UNCHANGED << current_position, target_position, path, is_navigating,
                  emergency_stop_active, has_lidar, scan_data, op_trace >>

\* if self.is_navigating and len(self.path) > 0: ... else return None
TickChecksNavigating ==
  /\ fn_in.pc = "clear"
  /\ IF is_navigating /\ Len(path) > 0
     THEN /\ fn_in' = [fn_in EXCEPT !.pc = "follow"]
          /\ UNCHANGED << fn_out, result, last_op >>
     ELSE TickReturns(NoneResult)
  /\ UNCHANGED << current_position, target_position, path, is_navigating,
                  emergency_stop_active, occupancy_map, has_lidar, scan_data, op_trace >>

\* _execute_path_following: if not self.path: stop navigating, return zero
TickChecksPath ==
  /\ fn_in.pc = "follow"
  /\ IF path = <<>>
     THEN /\ is_navigating' = FALSE
          /\ TickReturns(ZeroCommand)
     ELSE /\ fn_in' = [fn_in EXCEPT !.pc = "nonempty"]
          /\ UNCHANGED << is_navigating, fn_out, result, last_op >>
  /\ UNCHANGED << current_position, target_position, path, emergency_stop_active,
                  occupancy_map, has_lidar, scan_data, op_trace >>

\* next_waypoint = self.path[0]: IndexError on an empty list
TickReadsWaypoint ==
  /\ fn_in.pc = "nonempty"
  /\ IF path = <<>>
     THEN TickReturns(Raised)
     ELSE /\ fn_in' = [fn_in EXCEPT !.pc = "waypoint", !.next_waypoint = path[1]]
          /\ UNCHANGED << fn_out, result, last_op >>
  /\ UNCHANGED << current_position, target_position, path, is_navigating,
                  emergency_stop_active, occupancy_map, has_lidar, scan_data, op_trace >>

\* the distance test, self.path.pop(0) (IndexError on an empty list), the
\* arrival test and the command computed from next_waypoint
TickSteers ==
  /\ fn_in.pc = "waypoint"
  /\ IF CloseEnough(fn_in.next_waypoint, current_position)
     THEN IF path = <<>>
          THEN /\ TickReturns(Raised)
               /\ UNCHANGED << path, is_navigating >>
          ELSE /\ path' = Tail(path)
               /\ IF Tail(path) = <<>>
                  THEN /\ is_navigating' = FALSE
                       /\ TickReturns(ZeroCommand)
                  ELSE /\ TickReturns(SteerCommand(fn_in.next_waypoint, current_position))
                       /\ UNCHANGED is_navigating
     ELSE /\ TickReturns(SteerCommand(fn_in.next_waypoint, current_position))
          /\ UNCHANGED << path, is_navigating >>
  /\ UNCHANGED << current_position, target_position, emergency_stop_active,
                  occupancy_map, has_lidar, scan_data, op_trace >>

\* emergency_stop() called from another thread, at any point of the tick
StopFromOtherThread ==
  /\ ~fn_in.stopped
  /\ emergency_stop_active' = TRUE
  /\ is_navigating' = FALSE
  /\ path' = <<>>
  /\ fn_in' = [fn_in EXCEPT !.stopped = TRUE]
  /\ UNCHANGED << current_position, target_position, occupancy_map, has_lidar,
                  scan_data, result, last_op, op_trace, fn_out >>

RaceNext ==
  \/ TickChecksFlag
  \/ TickSensesObstacles
  \/ TickChecksNavigating
  \/ TickChecksPath
  \/ TickReadsWaypoint
  \/ TickSteers
  \/ StopFromOtherThread

SpecRace == RaceInit /\ [][RaceNext]_vars

\* C28: an update() that completes after emergency_stop() has returned,
\* the tick that was in flight when it was invoked included, raises nothing
\* and returns no command other than the all-zero command
C28_StopDiscardsCommand ==
  (fn_out.kind = "race" /\ fn_out.stopped) =>
    /\ fn_out.result # Raised
    /\ fn_out.result.kind = "command" => fn_out.result = ZeroCommand

\* the same for the command alone: no non-zero command after the stop
C28_NoMotionAfterStop ==
  (fn_out.kind = "race" /\ fn_out.stopped /\ fn_out.result.kind = "command") =>
    fn_out.result = ZeroCommand

\* a tick that no emergency_stop() interrupts returns what the atomic tick
\* returns
C28_StepsComposeToTick ==
  (fn_out.kind = "race" /\ ~fn_out.stopped) => fn_out.result = fn_out.atomic

\* what does hold: a tick that starts after emergency_stop() has returned
\* returns the all-zero command
C28_StopBeforeTickWins ==
  [][(fn_in.pc = "idle" /\ fn_in.stopped /\ fn_out' # fn_out) =>
       fn_out'.result = ZeroCommand]_vars

\* ------------------------------------------------------------------------
\* The path between two set_target calls (checked under Spec)
\* ------------------------------------------------------------------------

\* C29: between two set_target calls the path is only consumed: an update()
\* leaves it as it is or removes its front waypoint, and removes it only
\* when that waypoint is within 0.1 m of the pose; resume and a published
\* scan leave it alone; it becomes empty only by arrival, by a re-plan that
\* finds no path, by emergency_stop or by shutdown
C29_PathOnlyConsumed ==
  [][ /\ update =>
           \/ path' = path
           \/ /\ path # <<>>
              /\ path' = Tail(path)
              /\ CloseEnough(path[1], current_position)
              /\ ~emergency_stop_active
      /\ (resume \/ scan_data' # scan_data) => path' = path
      /\ (path' # path) => last_op' \in {"update", "set_target", "emergency_stop", "shutdown"}
      /\ (path # <<>> /\ path' = <<>>) =>
           \/ emergency_stop
           \/ shutdown
           \/ last_op' = "set_target" /\ result' = NoneResult /\ target_position' \in Targets
           \/ update /\ Len(path) = 1 /\ CloseEnough(path[1], current_position)
                     /\ ~is_navigating' /\ result' = ZeroCommand ]_vars

\* a tick has removed the reached front waypoint of a two-waypoint path and
\* keeps following the rest
C29_Witness ==
  /\ last_op = "update"
  /\ is_navigating
  /\ Len(path) = 1
  /\ path[1] = target_position
  /\ ~CloseEnough(path[1], current_position)
  /\ result.kind = "command"

\* C30: when a following tick removes a reached waypoint and the path stays
\* non-empty, the returned command is the one computed from the new front
\* waypoint, the front of the path when update() returns
C30_SteersToNewFront ==
  [][(/\ update
      /\ ~emergency_stop_active /\ ~ObstacleNow
      /\ is_navigating /\ Len(path) >= 2
      /\ CloseEnough(path[1], current_position))
       => /\ path' = Tail(path)
          /\ result' = SteerCommand(path'[1], current_position) ]_vars

\* what the tick does return: the command computed from the waypoint it
\* has just removed
C30_SteersToRemovedWaypoint ==
  [][(/\ update
      /\ ~emergency_stop_active /\ ~ObstacleNow
      /\ is_navigating /\ Len(path) >= 2
      /\ CloseEnough(path[1], current_position))
       => /\ path' = Tail(path)
          /\ result' = SteerCommand(path[1], current_position) ]_vars

\* ------------------------------------------------------------------------
\* The two scan reads of one tick against the scan worker
\* (checked under SpecTear)
\*
\* fn_in is the frame of the tick: its position pc and the scan that
\* _update_slam read. fn_out is, for the last completed tick, the scan it
\* ingested and the scan its obstacle check inspected.
\* ------------------------------------------------------------------------

TearInit ==
  /\ current_position = <<0, 0, 0>>
  /\ target_position = <<0, 0, 0>>
  /\ path = <<>>
  /\ is_navigating = FALSE
  /\ emergency_stop_active = FALSE
  /\ occupancy_map = InitialMap
  /\ has_lidar = TRUE
  /\ scan_data = <<>>
  /\ result = NoneResult
  /\ last_op = "init"
  /\ op_trace = "none"
  /\ fn_in = [kind |-> "tick", pc |-> "idle", ingested |-> <<>>]
  /\ fn_out = NoCall

\* update() through self._update_slam(): scan_data = get_scan_data() and the
\* ingestion of that copy
TickIngestsScan ==
  /\ fn_in.pc = "idle"
  /\ ~emergency_stop_active
  /\ occupancy_map' = _update_slam(occupancy_map, has_lidar, scan_data).map
  /\ fn_in' = [kind |-> "tick", pc |-> "ingested", ingested |-> scan_data]
  /\ UNCHANGED << current_position, target_position, path, is_navigating,
                  emergency_stop_active, has_lidar, scan_data, result, last_op,
                  op_trace, fn_out >>

\* the rest of update(): get_obstacles_in_direction calls get_scan_data()
\* again; nothing is navigating, so the tick returns zero or None
TickInspectsScan ==
  /\ fn_in.pc = "ingested"
  /\ result' = IF _check_immediate_obstacles(has_lidar, scan_data)
               THEN ZeroCommand ELSE NoneResult
  /\ last_op' = "update"
  /\ fn_in' = [kind |-> "tick", pc |-> "idle", ingested |-> <<>>]
  /\ fn_out' = [kind |-> "tear", ingested |-> fn_in.ingested, inspected |-> scan_data]
  /\ UNCHANGED << current_position, target_position, path, is_navigating,
                  emergency_stop_active, occupancy_map, has_lidar, scan_data, op_trace >>

TearNext ==
  \/ TickIngestsScan
  \/ TickInspectsScan
  \/ \E raw \in RawScans : ScanPublish(raw)

SpecTear == TearInit /\ [][TearNext]_vars

\* C31: within one tick the scan ingested into the grid and the scan the
\* obstacle check inspects are the same published scan
C31_OneScanPerTick ==
  fn_out.kind = "tear" => fn_out.inspected = fn_out.ingested

\* ------------------------------------------------------------------------
\* The control tick of RobotController around the navigation tick
\* (checked under SpecController)
\*
\* fn_in says whether the controller has a motion collaborator
\* (dynamixel_controller). fn_out is, for the last control tick, the command
\* NavigationSystem.update() returned, the commands handed to
\* execute_command, and whether the control tick raised.
\* ------------------------------------------------------------------------

ControllerInit ==
  /\ current_position = <<0, 0, 0>>
  /\ target_position = <<0, 0, 0>>
  /\ path = <<>>
  /\ is_navigating = FALSE
  /\ emergency_stop_active = FALSE
  /\ occupancy_map = InitialMap
  /\ has_lidar = TRUE
  /\ scan_data = <<>>
  /\ result = NoneResult
  /\ last_op = "init"
  /\ op_trace = "none"
  /\ fn_in \in [kind : {"controller"}, dynamixel : BOOLEAN]
  /\ fn_out = NoCall

\* RobotController.update(): _update_navigation calls
\* navigation_system.update() and drops what it returns;
\* _execute_control_commands asks the navigation system for
\* get_movement_command(), a method it does not have (AttributeError), and
\* does nothing without a motion collaborator
ControllerUpdate ==
  \E t \in {IF emergency_stop_active
             THEN [map |-> occupancy_map, result |-> ZeroCommand, path |-> path,
                   is_navigating |-> is_navigating]
             ELSE Tick(occupancy_map, has_lidar, scan_data, path, is_navigating,
                       current_position)} :
    /\ occupancy_map' = t.map
    /\ path' = t.path
    /\ is_navigating' = t.is_navigating
    /\ result' = IF t.result = Raised \/ fn_in.dynamixel THEN Raised ELSE NoneResult
    /\ last_op' = "update"
    /\ op_trace' = "none"
    /\ fn_out' = [kind |-> "control", command |-> t.result, executed |-> <<>>,
                  raised |-> (t.result = Raised \/ fn_in.dynamixel)]
    /\ UNCHANGED << current_position, target_position, emergency_stop_active, has_lidar,
                    scan_data, fn_in >>

ControllerNext ==
  \/ ControllerUpdate
  \/ \E t \in Targets : set_target(t[1], t[2], t[3])
  \/ emergency_stop
  \/ resume
  \/ \E raw \in FrameRawScans : ScanPublish(raw)

SpecController == ControllerInit /\ [][ControllerNext]_vars

\* C32: each control tick, the command NavigationSystem.update() returned,
\* when it is not None, is the command passed to execute_command
C32_CommandReachesMotion ==
  (fn_out.kind = "control" /\ fn_out.command.kind = "command") =>
    fn_out.executed = <<fn_out.command>>

\* ------------------------------------------------------------------------
\* The A* search one pass of its while loop at a time
\* (checked under SpecSearch, and under SpecSearchFair for termination)
\*
\* fn_in is the frame of _a_star: start, goal, the heap open, came_from,
\* g_score, whether a validity read raised, and whether some cell has been
\* pushed a second time. fn_out is what _a_star returned.
\* ------------------------------------------------------------------------

\* the grids searched: untouched, or after one ingested sample
SearchGrids ==
  { GridFromEndpoints([map |-> InitialMap, err |-> FALSE], cells) :
      cells \in {<<>>} \cup {<<c>> : c \in Cells} }

\* the start cells: a corner and two cells next to opposite corners
SearchStarts == { <<0, 0>>, <<MapN - 1, 1>>, <<1, MapN - 1>> }

\* no search has been called yet
SearchInit ==
  /\ current_position = <<0, 0, 0>>
  /\ target_position = <<0, 0, 0>>
  /\ path = <<>>
  /\ is_navigating = FALSE
  /\ emergency_stop_active = FALSE
  /\ occupancy_map = InitialMap
  /\ has_lidar = TRUE
  /\ scan_data = <<>>
  /\ result = NoneResult
  /\ last_op = "init"
  /\ op_trace = "none"
  /\ fn_in = NoCall
  /\ fn_out = NoCall

\* _a_star(start, goal) is called on some grid: the heap holds (0, start),
\* g_score[start] = 0
SearchBegins ==
  /\ fn_in = NoCall
  /\ occupancy_map' \in SearchGrids
  /\ \E start \in SearchStarts, goal \in Cells \cup {OutsideCell} :
       fn_in' = [kind |-> "search", start |-> start, goal |-> goal,
                 open |-> {<<0, start>>}, came_from |-> <<>>, g_score |-> (start :> 0),
                 err |-> FALSE, repushed |-> FALSE]
  /\ UNCHANGED << current_position, target_position, path, is_navigating,
                  emergency_stop_active, has_lidar, scan_data, result, last_op,
                  op_trace, fn_out >>

\* one pass of while open_set: pop the least entry; return the path at the
\* goal, otherwise relax the eight neighbours one after the other; an empty
\* heap returns []
SearchStep ==
  /\ fn_in.kind = "search"
  /\ fn_out = NoCall
  /\ IF fn_in.err
     THEN /\ fn_out' = [kind |-> "search", path |-> <<>>, err |-> TRUE]
          /\ UNCHANGED fn_in
     ELSE IF fn_in.open = {}
     THEN /\ fn_out' = [kind |-> "search", path |-> <<>>, err |-> FALSE]
          /\ UNCHANGED fn_in
     ELSE \E top \in {HeapMin(fn_in.open)} :
          \E popped \in {[fn_in EXCEPT !.open = @ \ {top}]} :
              IF top[2] = fn_in.goal
              THEN /\ fn_out' = [kind |-> "search", err |-> FALSE,
                                 path |-> <<fn_in.start>>
                                            \o Reconstruct(fn_in.came_from, top[2], <<>>)]
                   /\ fn_in' = popped
              ELSE /\ \E s1 \in {RelaxOne(occupancy_map, popped, top[2], fn_in.goal, 1)} :
                      \E s2 \in {RelaxOne(occupancy_map, s1, top[2], fn_in.goal, 2)} :
                      \E s3 \in {RelaxOne(occupancy_map, s2, top[2], fn_in.goal, 3)} :
                      \E s4 \in {RelaxOne(occupancy_map, s3, top[2], fn_in.goal, 4)} :
                      \E s5 \in {RelaxOne(occupancy_map, s4, top[2], fn_in.goal, 5)} :
                      \E s6 \in {RelaxOne(occupancy_map, s5, top[2], fn_in.goal, 6)} :
                      \E s7 \in {RelaxOne(occupancy_map, s6, top[2], fn_in.goal, 7)} :
                      \E st \in {RelaxOne(occupancy_map, s7, top[2], fn_in.goal, 8)} :
                        fn_in' = [st EXCEPT !.repushed =
                                    @ \/ \E e \in st.open \ popped.open :
                                           e[2] \in DOMAIN popped.g_score]
                   /\ UNCHANGED fn_out
  /\ UNCHANGED << current_position, target_position, path, is_navigating,
                  emergency_stop_active, occupancy_map, has_lidar, scan_data, result,
                  last_op, op_trace >>

SearchNext == SearchBegins \/ SearchStep

SpecSearch == SearchInit /\ [][SearchNext]_vars

SpecSearchFair == SpecSearch /\ WF_vars(SearchNext)

\* C33: the search terminates for every start and goal, a goal outside the
\* map or invalid included: _a_star returns, a cell's g-score never grows,
\* and each time a cell that has a g-score is pushed its g-score strictly
\* decreases
C33_SearchTerminates ==
  /\ <>(fn_out.kind = "search")
  /\ [][ fn_in.kind = "search" =>
           /\ \A c \in DOMAIN fn_in.g_score :
                c \in DOMAIN fn_in'.g_score /\ fn_in'.g_score[c] <= fn_in.g_score[c]
           /\ \A e \in fn_in'.open \ fn_in.open :
                e[2] \in DOMAIN fn_in.g_score =>
                  fn_in'.g_score[e[2]] < fn_in.g_score[e[2]] ]_vars

\* a search for a goal outside the map has returned [] with its heap
\* exhausted, after pushing some cell a second time
C33_Witness ==
  /\ fn_out.kind = "search"
  /\ fn_in.goal = OutsideCell
  /\ fn_out.path = <<>>
  /\ ~fn_out.err
  /\ fn_in.open = {}
  /\ fn_in.repushed

\* the passes compose to _a_star
C33_StepsComposeToAStar ==
  fn_out.kind = "search" =>
    /\ fn_out.path = _a_star(occupancy_map, fn_in.start, fn_in.goal).path
    /\ fn_out.err = _a_star(occupancy_map, fn_in.start, fn_in.goal).err

\* ------------------------------------------------------------------------
\* The life cycle of the scan worker: start_scanning, stop_scanning, the
\* worker threads and the per-tick LidarController.update()
\* ------------------------------------------------------------------------

\* the most threads start_scanning creates in one run
MaxWorkers == 3

\* the threads of a life-cycle frame that are alive
AliveWorkers(f) == { w \in DOMAIN f.threads : f.threads[w] = "waiting" }

\* LidarController.__init__: not initialized, not scanning, no scan thread;
\* the caller of the public methods is one thread; abandoned records that a
\* join has timed out
LifecycleInit ==
  /\ current_position = <<0, 0, 0>>
  /\ target_position = <<0, 0, 0>>
  /\ path = <<>>
  /\ is_navigating = FALSE
  /\ emergency_stop_active = FALSE
  /\ occupancy_map = InitialMap
  /\ has_lidar = TRUE
  /\ scan_data = <<>>
  /\ result = NoneResult
  /\ last_op = "init"
  /\ op_trace = "none"
  /\ fn_in = [kind |-> "lifecycle", is_initialized |-> FALSE, is_scanning |-> FALSE,
              scan_thread |-> 0, threads |-> <<>>, caller |-> "idle",
              abandoned |-> FALSE]
  /\ fn_out = NoCall

\* the variables the life cycle leaves alone
LifecycleKeeps ==
  UNCHANGED << current_position, target_position, path, is_navigating,
               emergency_stop_active, occupancy_map, has_lidar, result, last_op, op_trace >>

\* start_scanning on a frame: refuses unless initialized and not scanning;
\* otherwise sets the flag, creates the thread and starts it; a thread that
\* cannot be started clears the flag again
StartScanning(f, started) ==
  IF ~f.is_initialized \/ f.is_scanning
  THEN [frame |-> f, returned |-> FALSE]
  ELSE IF started
  THEN [frame |-> [f EXCEPT !.is_scanning = TRUE,
                            !.threads = Append(@, "waiting"),
                            !.scan_thread = Len(f.threads) + 1],
        returned |-> TRUE]
  ELSE [frame |-> [f EXCEPT !.is_scanning = FALSE,
                            !.threads = Append(@, "unstarted"),
                            !.scan_thread = Len(f.threads) + 1],
        returned |-> FALSE]

\* initialize(): the device answered
initialize ==
  /\ fn_in.kind = "lifecycle"
  /\ fn_in.caller = "idle"
  /\ ~fn_in.is_initialized
  /\ fn_in' = [fn_in EXCEPT !.is_initialized = TRUE]
  /\ fn_out' = [kind |-> "initialize"]
  /\ UNCHANGED scan_data
  /\ LifecycleKeeps

\* start_scanning()
start_scanning ==
  /\ fn_in.kind = "lifecycle"
  /\ fn_in.caller = "idle"
  /\ Len(fn_in.threads) < MaxWorkers
  /\ \E started \in BOOLEAN :
       \E r \in {StartScanning(fn_in, started)} :
         /\ fn_in' = r.frame
         /\ fn_out' = [kind |-> "start", returned |-> r.returned]
  /\ UNCHANGED scan_data
  /\ LifecycleKeeps

\* LidarController.update(): if not self.is_scanning: self.start_scanning()
LidarUpdate ==
  /\ fn_in.kind = "lifecycle"
  /\ fn_in.caller = "idle"
  /\ Len(fn_in.threads) < MaxWorkers
  /\ \E started \in BOOLEAN :
       \E r \in {IF ~fn_in.is_scanning THEN StartScanning(fn_in, started)
                  ELSE [frame |-> fn_in, returned |-> FALSE]} :
         /\ fn_in' = r.frame
         /\ fn_out' = [kind |-> "update", restarted |-> r.returned]
  /\ UNCHANGED scan_data
  /\ LifecycleKeeps

\* stop_scanning() up to the join: returns at once when not scanning, else
\* clears the flag and joins the scan thread if it is alive
StopBegins ==
  /\ fn_in.kind = "lifecycle"
  /\ fn_in.caller = "idle"
  /\ IF ~fn_in.is_scanning
     THEN /\ fn_out' = [kind |-> "stop", stopped |-> FALSE, timed_out |-> FALSE]
          /\ UNCHANGED fn_in
     ELSE IF fn_in.scan_thread \in AliveWorkers(fn_in)
     THEN /\ fn_in' = [fn_in EXCEPT !.is_scanning = FALSE, !.caller = "joining"]
          /\ UNCHANGED fn_out
     ELSE /\ fn_in' = [fn_in EXCEPT !.is_scanning = FALSE]
          /\ fn_out' = [kind |-> "stop", stopped |-> TRUE, timed_out |-> FALSE]
  /\ UNCHANGED scan_data
  /\ LifecycleKeeps

\* self.scan_thread.join(timeout=2.0) returns, because the thread ended or
\* because the two seconds passed; stop_scanning then returns
StopJoinReturns ==
  /\ fn_in.kind = "lifecycle"
  /\ fn_in.caller = "joining"
  /\ fn_in' = [fn_in EXCEPT !.caller = "idle",
                            !.abandoned = @ \/ fn_in.scan_thread \in AliveWorkers(fn_in)]
  /\ fn_out' = [kind |-> "stop", stopped |-> TRUE,
                timed_out |-> fn_in.scan_thread \in AliveWorkers(fn_in)]
  /\ UNCHANGED scan_data
  /\ LifecycleKeeps

\* one pass of the loop of _scan_loop in thread w: iter_scans() yields a
\* scan; the thread leaves the loop when the flag is cleared, else it
\* filters the scan and publishes it
WorkerIterates(w, raw) ==
  /\ fn_in.kind = "lifecycle"
  /\ w \in AliveWorkers(fn_in)
  /\ IF ~fn_in.is_scanning
     THEN /\ fn_in' = [fn_in EXCEPT !.threads[w] = "exited"]
          /\ UNCHANGED scan_data
     ELSE /\ scan_data' = FilterScan(raw)
          /\ UNCHANGED fn_in
  /\ UNCHANGED fn_out
  /\ LifecycleKeeps

\* iter_scans() raises in thread w: the handler clears the flag and the
\* thread ends
WorkerFails(w) ==
  /\ fn_in.kind = "lifecycle"
  /\ w \in AliveWorkers(fn_in)
  /\ fn_in' = [fn_in EXCEPT !.threads[w] = "exited", !.is_scanning = FALSE]
  /\ UNCHANGED << scan_data, fn_out >>
  /\ LifecycleKeeps

LifecycleNext ==
  \/ initialize
  \/ start_scanning
  \/ LidarUpdate
  \/ StopBegins
  \/ StopJoinReturns
  \/ \E w \in 1 .. MaxWorkers, raw \in FrameRawScans : WorkerIterates(w, raw)
  \/ \E w \in 1 .. MaxWorkers : WorkerFails(w)

SpecLifecycle == LifecycleInit /\ [][LifecycleNext]_vars

\* C34: at most one scan worker thread is alive at any time, under every
\* interleaving of start_scanning, stop_scanning (whose join may time out),
\* a failing worker and the update() that restarts scanning
C34_AtMostOneWorkerAlive ==
  fn_in.kind = "lifecycle" => Cardinality(AliveWorkers(fn_in)) <= 1

\* a second worker is alive only after a join that timed out (abandoned
\* records that stop_scanning returned while its thread was alive)
C34_SecondWorkerNeedsTimeout ==
  (fn_in.kind = "lifecycle" /\ Cardinality(AliveWorkers(fn_in)) > 1) => fn_in.abandoned

====
